---------------------------- MODULE Spec2Model ----------------------------
(***************************************************************************)
(* A model of the event-dispatch and shared-state core of the store        *)
(* system: the EventBus (publish/subscribe hub) and the AppStore (state    *)
(* tree with deep merge).                                                  *)
(*                                                                         *)
(* JavaScript values are modelled as tagged records [k, v]:                *)
(*   k = "atom" : a primitive (string, number, boolean, null), v its text  *)
(*   k = "obj"  : a plain object, v a function from its own keys           *)
(*   k = "arr"  : an Array, v a function from the index keys "0".."n-1"    *)
(*   k = "map"  : a Map; it has no own enumerable properties               *)
(*   k = "num"  : a number that the model computes with, v an integer      *)
(*   k = "date" : a Date, v the clock value it was built at                *)
(***************************************************************************)
EXTENDS Integers, Sequences, FiniteSets, TLC

VARIABLES
    \* ---- AppStore ----
    state,          \* this.state, the state tree
    listeners,      \* this.listeners (AppStore), a sequence of listener names
    middleware,     \* this.middleware (AppStore), a sequence of middleware kinds
    localStorage,   \* the durable value under 'moc_app_settings'
    destroyed,      \* history: destroy() has been called
    lastCall,       \* history: the last call on the store, or the last
                    \* emitIf() that did not publish, clear() or destroy()
                    \* of the bus: its outcome and the listener calls it
                    \* made
    clock,          \* Date.now(), in milliseconds
    timers,         \* the setTimeout callbacks the store has scheduled
    notificationCount, \* the notifications built so far (their ids)
    gets,           \* the getCache() calls made so far
    lastWrite,      \* history: per key, the last setCache call since the key
                    \* was last removed by a call
    \* ---- EventBus ----
    events,         \* this.events: event name -> listener list
    wildcardListeners, \* this.wildcardListeners
    history,        \* this.history
    busMiddleware,  \* this.middleware (EventBus), a sequence of kinds
    nextId,         \* number of ids handed out so far (listeners and events)
    emits,          \* the emit() calls made so far, each with its position
    waiters         \* the waitFor() calls made so far

timeVars == <<clock, timers, notificationCount, gets, lastWrite>>
storeVars == <<state, listeners, middleware, localStorage, destroyed, lastCall,
               clock, timers, notificationCount, gets, lastWrite>>
busVars == <<events, wildcardListeners, history, busMiddleware, nextId, emits,
             waiters>>
vars == <<state, listeners, middleware, localStorage, destroyed, lastCall,
          clock, timers, notificationCount, gets, lastWrite,
          events, wildcardListeners, history, busMiddleware, nextId, emits,
          waiters>>

(***************************************************************************)
(* JavaScript values                                                       *)
(***************************************************************************)
Atom(a) == [k |-> "atom", v |-> a]
Obj(m) == [k |-> "obj", v |-> m]
Null == Atom("null")
Undefined == Atom("undefined")
EmptyMap == [k |-> "map", v |-> <<>>]
Num(n) == [k |-> "num", v |-> n]
\* new Date() at clock value t
Date(t) == [k |-> "date", v |-> t]

IndexKeys == <<"0", "1", "2", "3">>

\* An Array literal with the elements of the sequence s.
Arr(s) == [k |-> "arr", v |-> [key \in {IndexKeys[i] : i \in 1..Len(s)} |->
                                 s[CHOOSE i \in 1..Len(s) : IndexKeys[i] = key]]]

\* `x instanceof Object`: objects, arrays, Maps and Dates, not primitives or
\* null.
IsObject(x) == x.k \in {"obj", "arr", "map", "date"}

\* The elements of an Array, in index order.
ListOf(x) == [i \in 1..Cardinality(DOMAIN x.v) |-> x.v[IndexKeys[i]]]

\* The own enumerable keys of x: what `for (key in x)` with hasOwnProperty
\* visits and what {...x} copies.
OwnKeys(x) == IF x.k \in {"obj", "arr"} THEN DOMAIN x.v ELSE {}

\* x[key]
Prop(x, key) == IF key \in OwnKeys(x) THEN x.v[key] ELSE Undefined



(***************************************************************************)
(* AppStore                                                                *)
(***************************************************************************)

\* Bounds of the store model.
MaxStoreListeners == 1
MaxStoreMiddleware == 1

\* The object literal {...a, ...b}.
spread(a, b) ==
    Obj([key \in OwnKeys(a) \cup OwnKeys(b) |->
            IF key \in OwnKeys(b) THEN b.v[key] ELSE a.v[key]])

\* mergeDeep with the recursion dropped: every key of source replaces the
\* key of target, as Object.assign would.
mergeDeepNoRecursion(target, source) ==
    Obj([key \in OwnKeys(target) \cup OwnKeys(source) |->
            IF key \in OwnKeys(source) THEN source.v[key] ELSE target.v[key]])

\* AppStore.mergeDeep(target, source): result = {...target}; every own key of
\* source whose value and whose target value are both `instanceof Object` is
\* merged recursively, every other key of source is assigned.
RECURSIVE mergeDeep(_, _)
mergeDeep(target, source) ==
    Obj([key \in OwnKeys(target) \cup OwnKeys(source) |->
            IF key \in OwnKeys(source)
            THEN IF IsObject(source.v[key]) /\ IsObject(Prop(target, key))
                 THEN mergeDeep(Prop(target, key), source.v[key])
                 ELSE source.v[key]
            ELSE target.v[key]])

\* JSON.parse(JSON.stringify(x)): keys holding undefined are dropped, a Map
\* is written as {}, everything else in the model's value space is kept.
RECURSIVE JSONValue(_)
JSONValue(x) ==
    CASE x.k \in {"atom", "num"} -> x
      [] x.k = "map" -> Obj(<<>>)
      [] x.k = "date" -> Atom("date")
      [] OTHER -> [k |-> x.k,
                   v |-> [key \in {q \in DOMAIN x.v : x.v[q] # Undefined} |->
                             JSONValue(x.v[key])]]

\* JSON.stringify(x): the text, kept as the value it denotes.
JSONstringify(x) == [k |-> "json", v |-> JSONValue(x)]
\* JSON.parse(text)
JSONparse(text) == text.v

\* The settings of the constructor.
DefaultSettings ==
    Obj("theme" :> Atom("light") @@ "language" :> Atom("ja") @@
        "currency" :> Atom("JPY") @@ "timezone" :> Atom("Asia/Tokyo"))

\* this.state.cacheTTL, 5 * 60 * 1000 milliseconds
cacheTTL == 300000

\* The values the clock shows when the store is built and one minute later.
Times == {"09:00", "09:01"}

\* The state tree the constructor builds.
DefaultState ==
    Obj("currentUser" :> Null @@
        "currentDate" :> Atom("2024-01-01") @@
        "currentTime" :> Atom("09:00") @@
        "settings" :> DefaultSettings @@
        "ui" :> Obj("loading" :> Atom("false") @@
                    "notifications" :> Arr(<<>>) @@
                    "modal" :> Null @@
                    "sidebarOpen" :> Atom("false")) @@
        "cache" :> EmptyMap @@
        "cacheTimestamps" :> EmptyMap @@
        "cacheTTL" :> Num(cacheTTL))

\* What localStorage may hold under 'moc_app_settings' before the store is
\* built: nothing, or settings saved by an earlier session.
InitialStorage ==
    {Null, JSONstringify(Obj("theme" :> Atom("dark")))}

\* loadSettings that never reads what was saved.
loadSettingsIgnoresSaved(st, saved) == st

\* AppStore.loadSettings: settings = {...settings, ...JSON.parse(saved)}.
loadSettings(st, saved) ==
    IF saved = Null THEN st
    ELSE [st EXCEPT !.v["settings"] =
             spread(st.v["settings"], JSONparse(saved))]

\* AppStore.saveSettings: the new content of localStorage.
saveSettings(st) == JSONstringify(Prop(st, "settings"))

\* The middleware functions a caller may register: one that returns the
\* state it was given, one that returns nothing, one that throws.
MiddlewareKinds == {"identity", "silent", "throws"}

\* Middleware functions that return another partial state: "veto" returns
\* {} in place of what it was given, "stamp" returns
\* {...processedState, stamped: true}.
TransformKinds == {"veto", "stamp"}

\* What the middleware function of `kind` returns for processedState; one
\* that throws returns nothing.
returned(kind, processedState) ==
    CASE kind = "identity" -> processedState
      [] kind = "veto" -> Obj(<<>>)
      [] kind = "stamp" -> spread(processedState, Obj("stamped" :> Atom("true")))
      [] OTHER -> Undefined

\* A middleware whose return value is dropped.
applyMiddlewareIgnoresReturn(kind, processedState) == processedState

\* A middleware whose throw empties the partial state.
applyMiddlewareThrowDiscards(kind, processedState) ==
    IF kind = "throws" THEN Obj(<<>>)
    ELSE IF returned(kind, processedState) = Undefined
    THEN processedState
    ELSE returned(kind, processedState)

\* One middleware applied to processedState:
\* processedState = middleware(processedState, prevState, action) || processedState,
\* a throw is caught and processedState is kept.
applyMiddleware(kind, processedState) ==
    IF kind = "throws" \/ returned(kind, processedState) = Undefined
    THEN processedState
    ELSE returned(kind, processedState)

\* The middleware loop of setState.
RECURSIVE runMiddleware(_, _)
runMiddleware(mws, processedState) ==
    IF mws = <<>> THEN processedState
    ELSE runMiddleware(Tail(mws), applyMiddleware(Head(mws), processedState))

\* The partial states the callers of the model pass to setState.
Notification(id) == Obj("id" :> Atom(id) @@ "message" :> Atom("m"))
Partials ==
    { Obj("ui" :> Obj("loading" :> Atom("true"))),
      Obj("settings" :> Obj("theme" :> Atom("dark"))),
      Obj("ui" :> Obj("notifications" :> Arr(<<Notification("n1")>>))),
      Obj("ui" :> Obj("notifications" :> Arr(<<Notification("n2")>>))),
      Obj("ui" :> Obj("notifications" :> Arr(<<>>))),
      Obj("ui" :> Obj("modal" :> Obj("title" :> Atom("t")))),
      Obj("ui" :> Obj("modal" :> Null)),
      Obj("currentUser" :> Obj("name" :> Atom("a"))) }

\* The read of this.state.settings.debug that ends setState: it raises a
\* TypeError when settings is null or undefined.
debugReadRaises(st) == Prop(st, "settings") \in {Null, Undefined}

\* The listener functions that throw when they are called.
ThrowingListeners == {"bad"}

\* notify() without the try/catch around the listener call: the forEach
\* ends at the first listener that throws.
notifyStopsAtThrow(ls, st, action) ==
    LET bad == {k \in 1..Len(ls) : ls[k] \in ThrowingListeners}
        last == IF bad = {} THEN Len(ls)
                ELSE CHOOSE k \in bad : \A j \in bad : k <= j
    IN [k \in 1..last |->
           [listener |-> ls[k], state |-> st, action |-> action,
            threw |-> ls[k] \in ThrowingListeners]]

\* The unsubscribe function subscribe(l) returned: the first index
\* indexOf(l) finds is spliced out.
unsubscribe(ls, l) ==
    LET hits == {k \in 1..Len(ls) : ls[k] = l}
    IN IF hits = {} THEN ls
       ELSE LET index == CHOOSE k \in hits : \A j \in hits : k <= j
            IN SubSeq(ls, 1, index - 1) \o SubSeq(ls, index + 1, Len(ls))

\* this.listeners after the listener function l was called: "selfOff" calls
\* its own unsubscribe function, "offL2" the one of "l2"; the others leave
\* the list alone.
afterListener(ls, l) ==
    CASE l = "selfOff" -> unsubscribe(ls, "selfOff")
      [] l = "offL2" -> unsubscribe(ls, "l2")
      [] OTHER -> ls

\* The listener function "again" calls setState(InnerPartial, InnerAction)
\* when it is called with an action other than InnerAction.
InnerPartial == Obj("ui" :> Obj("sidebarOpen" :> Atom("true")))
InnerAction == Obj("type" :> Atom("INNER"))
Reenters(l, action) == l = "again" /\ action # InnerAction

\* this.listeners.forEach(...) from index k on, with this.state = st:
\* forEach reads the length once (len) and then visits every index below it
\* that the array still has when its turn comes; each listener is called
\* with (this.state, action) inside try/catch.  A listener that calls
\* setState runs that whole call, its merge and its notify(), before it
\* returns to the forEach that called it.  The result holds the calls made
\* in the order they were made, and this.state and this.listeners at the
\* end.
RECURSIVE forEach(_, _, _, _, _)
forEach(ls, k, len, st, action) ==
    IF k > len \/ k > Len(ls)
    THEN [calls |-> <<>>, state |-> st, listeners |-> ls]
    ELSE LET l == ls[k]
             inner ==
                 IF Reenters(l, action)
                 THEN forEach(ls, 1, Len(ls),
                              mergeDeep(st, runMiddleware(middleware, InnerPartial)),
                              InnerAction)
                 ELSE [calls |-> <<>>, state |-> st,
                       listeners |-> afterListener(ls, l)]
             call == [listener |-> l, state |-> st, action |-> action,
                      threw |-> \/ l \in ThrowingListeners
                                \/ Reenters(l, action) /\ debugReadRaises(inner.state)]
             rest == forEach(inner.listeners, k + 1, len, inner.state, action)
         IN [calls |-> <<call>> \o inner.calls \o rest.calls,
             state |-> rest.state,
             listeners |-> rest.listeners]

\* AppStore.notify(action): forEach over this.listeners (ls).  The result is
\* the list of the calls made.
notify(ls, st, action) == forEach(ls, 1, Len(ls), st, action).calls

\* this.state after notify().
stateAfterNotify(ls, st, action) == forEach(ls, 1, Len(ls), st, action).state

\* this.listeners after notify().
listenersAfterNotify(ls, st, action) ==
    forEach(ls, 1, Len(ls), st, action).listeners

\* The default of the parameter `action`: {}.
NoAction == Obj(<<>>)

\* The record of a call: what it was, whether it raised and the listener
\* calls it made.
Called(op, raised, notified) ==
    [op |-> op, raised |-> raised, afterDestroy |-> destroyed,
     notified |-> notified]

\* The middleware loop of setState as the list of its calls: stage j is
\* given what the stages before it made of newState.
stagesOf(mws, newState) ==
    [j \in 1..Len(mws) |->
        [kind |-> mws[j],
         input |-> runMiddleware(SubSeq(mws, 1, j - 1), newState)]]

\* AppStore.setState(newState, action) as a step from the current state.
setStateStep(op, newState, action) ==
    LET processedState == runMiddleware(middleware, newState)
        merged == mergeDeep(state, processedState)
    IN /\ state' = stateAfterNotify(listeners, merged, action)
       /\ lastCall' = Called(op, debugReadRaises(state'),
                             notify(listeners, merged, action))
       /\ listeners' = listenersAfterNotify(listeners, merged, action)
       /\ UNCHANGED <<middleware, localStorage, destroyed>>

\* The partial state the interval callback passes to setState.
TimePartial(t) ==
    Obj("currentDate" :> Atom("2024-01-01") @@ "currentTime" :> Atom(t))

\* A caller calls setState(partial).
SetState(partial) ==
    /\ setStateStep("setState", partial, NoAction)
    /\ UNCHANGED timeVars
    /\ UNCHANGED busVars

\* A caller calls an unsubscribe function that subscribe(l) returned.
\* `repeated` says that it is the very function that was called in the step
\* before.  Every unsubscribe function of l does the same: indexOf(l), then
\* splice.
StoreUnsubscribe(l, repeated) ==
    /\ IF repeated
       THEN lastCall.op = "unsubscribe" /\ lastCall.listener = l
       ELSE \E k \in 1..Len(listeners) : listeners[k] = l
    /\ listeners' = unsubscribe(listeners, l)
    /\ lastCall' = [op |-> "unsubscribe", raised |-> FALSE,
                    afterDestroy |-> destroyed, notified |-> <<>>,
                    listener |-> l, repeated |-> repeated]
    /\ UNCHANGED <<state, middleware, localStorage, destroyed>>
    /\ UNCHANGED timeVars
    /\ UNCHANGED busVars

\* setCurrentUser(user): setState({currentUser: user}, {type: 'SET_USER',
\* payload: user}).
SetCurrentUser(user) ==
    /\ setStateStep("setCurrentUser", Obj("currentUser" :> user),
                    Obj("type" :> Atom("SET_USER") @@ "payload" :> user))
    /\ UNCHANGED timeVars
    /\ UNCHANGED busVars

\* showModal(modal): setState({ui: {modal}}, {type: 'SHOW_MODAL',
\* payload: modal}).
ShowModal(modal) ==
    /\ setStateStep("showModal", Obj("ui" :> Obj("modal" :> modal)),
                    Obj("type" :> Atom("SHOW_MODAL") @@ "payload" :> modal))
    /\ UNCHANGED timeVars
    /\ UNCHANGED busVars

\* hideModal(): setState({ui: {modal: null}}, {type: 'HIDE_MODAL'}).
HideModal ==
    /\ setStateStep("hideModal", Obj("ui" :> Obj("modal" :> Null)),
                    Obj("type" :> Atom("HIDE_MODAL")))
    /\ UNCHANGED timeVars
    /\ UNCHANGED busVars

\* The interval callback of startTimeUpdater: setState when the clock shows
\* another minute.
TimeUpdater(newTime) ==
    /\ Atom(newTime) # Prop(state, "currentTime")
    /\ setStateStep("timeUpdater", TimePartial(newTime), NoAction)
    /\ UNCHANGED timeVars
    /\ UNCHANGED busVars

\* AppStore.subscribe(listener), at most `limit` listeners.
StoreSubscribe(l, limit) ==
    /\ Len(listeners) < limit
    /\ listeners' = Append(listeners, l)
    /\ lastCall' = Called("subscribe", FALSE, <<>>)
    /\ UNCHANGED <<state, middleware, localStorage, destroyed>>
    /\ UNCHANGED timeVars
    /\ UNCHANGED busVars

\* AppStore.use(middleware), at most `limit` middleware functions.
StoreUse(kind, limit) ==
    /\ Len(middleware) < limit
    /\ middleware' = Append(middleware, kind)
    /\ lastCall' = Called("use", FALSE, <<>>)
    /\ UNCHANGED <<state, listeners, localStorage, destroyed>>
    /\ UNCHANGED timeVars
    /\ UNCHANGED busVars

\* destroy() that leaves the listeners registered.
DestroyKeepsListeners ==
    /\ localStorage' = saveSettings(state)
    /\ middleware' = <<>>
    /\ state' = [state EXCEPT !.v["cache"] = EmptyMap,
                              !.v["cacheTimestamps"] = EmptyMap]
    /\ destroyed' = TRUE
    /\ lastWrite' = <<>>
    /\ lastCall' = Called("destroy", FALSE, <<>>)
    /\ UNCHANGED <<listeners, clock, timers, notificationCount, gets>>
    /\ UNCHANGED busVars

\* AppStore.destroy(): save the settings, drop listeners and middleware,
\* clear both cache Maps.  Nothing records that the store was destroyed;
\* `destroyed` is the model's history of the call.
Destroy ==
    /\ localStorage' = saveSettings(state)
    /\ listeners' = <<>>
    /\ middleware' = <<>>
    /\ state' = [state EXCEPT !.v["cache"] = EmptyMap,
                              !.v["cacheTimestamps"] = EmptyMap]
    /\ destroyed' = TRUE
    /\ lastWrite' = <<>>
    /\ lastCall' = Called("destroy", FALSE, <<>>)
    /\ UNCHANGED <<clock, timers, notificationCount, gets>>
    /\ UNCHANGED busVars

\* The settings the callers of the model pass to updateSettings.  A key
\* given as undefined is a key JSON.stringify leaves out.
SettingsInputs ==
    { Obj("theme" :> Atom("dark")),
      Obj("language" :> Atom("en") @@ "debug" :> Atom("true")),
      Obj("theme" :> Undefined) }

\* AppStore.updateSettings(newSettings): setState of the settings spread
\* with newSettings and, when setState returned, saveSettings().
UpdateSettings(newSettings) ==
    LET newState == Obj("settings" :>
                            spread(Prop(state, "settings"), newSettings))
        action == Obj("type" :> Atom("UPDATE_SETTINGS") @@
                      "payload" :> newSettings)
        merged == mergeDeep(state, runMiddleware(middleware, newState))
    IN /\ state' = stateAfterNotify(listeners, merged, action)
       /\ lastCall' = [op |-> "updateSettings",
                       raised |-> debugReadRaises(state'),
                       afterDestroy |-> destroyed,
                       notified |-> notify(listeners, merged, action),
                       payload |-> newSettings]
       /\ localStorage' = IF debugReadRaises(state') THEN localStorage
                          ELSE saveSettings(state')
       /\ listeners' = listenersAfterNotify(listeners, merged, action)
       /\ UNCHANGED <<middleware, destroyed>>
       /\ UNCHANGED timeVars
       /\ UNCHANGED busVars

\* The beforeunload handler init() registers: saveSettings().
BeforeUnload ==
    /\ localStorage' = saveSettings(state)
    /\ lastCall' = Called("beforeunload", FALSE, <<>>)
    /\ UNCHANGED <<state, listeners, middleware, destroyed>>
    /\ UNCHANGED timeVars
    /\ UNCHANGED busVars

\* new AppStore() against the localStorage the last store left: the state
\* tree of the constructor with the saved settings loaded into it.  The
\* variables of the store are those of the new store from here on.
Construct ==
    /\ state' = loadSettings(DefaultState, localStorage)
    /\ listeners' = <<>>
    /\ middleware' = <<>>
    /\ destroyed' = FALSE
    /\ lastCall' = [op |-> "construct", raised |-> FALSE,
                    afterDestroy |-> FALSE, notified |-> <<>>]
    /\ timers' = <<>>
    /\ gets' = <<>>
    /\ lastWrite' = <<>>
    /\ UNCHANGED <<localStorage, clock, notificationCount>>
    /\ UNCHANGED busVars


(***************************************************************************)
(* AppStore: time, notifications and reset                                 *)
(*                                                                         *)
(* A timer is [kind, arg, due, armed]: the callback setTimeout was given   *)
(* (what it does and with which argument), the clock value at which it is  *)
(* due, and whether it has yet to fire.                                    *)
(***************************************************************************)

\* The duration of a notification that names none, in milliseconds.
defaultDuration == 5000

\* Bounds of the notification model.
MaxNotifications == 2
MaxNotificationClock == 10001

\* The ids addNotification computes from Date.now() + Math.random(): one
\* per call, all different.
NotificationIds == <<"id1", "id2", "id3">>

\* What the callers pass to addNotification: a notification, one with a
\* duration of its own (as clearCache builds it) and a persistent one.
NotificationInputs ==
    { Obj("type" :> Atom("info") @@ "message" :> Atom("m")),
      Obj("type" :> Atom("info") @@ "message" :> Atom("m") @@
          "duration" :> Num(3000)),
      Obj("type" :> Atom("info") @@ "message" :> Atom("m") @@
          "autoRemove" :> Atom("false")) }

\* notification.duration || 5000
durationOf(notification) ==
    LET d == Prop(notification, "duration")
    IN IF d.k = "num" /\ d.v # 0 THEN d.v ELSE defaultDuration

\* this.state.ui.notifications
notificationsOf(st) == Prop(Prop(st, "ui"), "notifications")

\* No timer that is due has yet to fire: the event loop runs the callbacks
\* of setTimeout in the order of their due times, before time goes on.
NoTimerDue == \A t \in DOMAIN timers : timers[t].armed => timers[t].due > clock

\* Timer t is the next one the event loop runs.
IsNextTimer(t) ==
    /\ t \in DOMAIN timers
    /\ timers[t].armed
    /\ timers[t].due <= clock
    /\ \A u \in DOMAIN timers :
           (timers[u].armed /\ u # t) =>
               \/ timers[u].due > timers[t].due
               \/ timers[u].due = timers[t].due /\ u > t

\* Time passes: d milliseconds, up to the clock value `limit`.
Tick(d, limit) ==
    /\ NoTimerDue
    /\ clock + d <= limit
    /\ clock' = clock + d
    /\ UNCHANGED <<state, listeners, middleware, localStorage, destroyed,
                   lastCall, timers, notificationCount, gets, lastWrite>>
    /\ UNCHANGED busVars

\* A call that ends with an uncaught TypeError before it changed anything.
raisesStep(op) ==
    /\ lastCall' = Called(op, TRUE, <<>>)
    /\ UNCHANGED <<state, listeners, middleware, localStorage, destroyed>>

\* AppStore.addNotification(notification).  [...this.state.ui.notifications]
\* raises a TypeError when the value is not iterable.
AddNotification(notification, limit) ==
    /\ notificationCount < limit
    /\ LET list == notificationsOf(state)
           newNotification ==
               spread(Obj("id" :> Atom(NotificationIds[notificationCount + 1]) @@
                          "timestamp" :> Date(clock)),
                      notification)
       IN IF list.k # "arr"
          THEN /\ raisesStep("addNotification")
               /\ UNCHANGED <<timers, notificationCount>>
          ELSE /\ setStateStep("addNotification",
                      Obj("ui" :> Obj("notifications" :>
                              Arr(Append(ListOf(list), newNotification)))),
                      Obj("type" :> Atom("ADD_NOTIFICATION") @@
                          "payload" :> newNotification))
               /\ notificationCount' = notificationCount + 1
               /\ timers' =
                      IF Prop(notification, "autoRemove") # Atom("false")
                      THEN Append(timers,
                               [kind |-> "notification",
                                arg |-> NotificationIds[notificationCount + 1],
                                due |-> clock + durationOf(notification),
                                armed |-> TRUE])
                      ELSE timers
    /\ UNCHANGED <<clock, gets, lastWrite>>
    /\ UNCHANGED busVars

\* notifications.filter(n => n.id !== id)
withoutId(list, id) ==
    LET keep == {i \in 1..Len(list) : Prop(list[i], "id") # Atom(id)}
        Nth(n) == CHOOSE i \in keep : Cardinality({j \in keep : j < i}) = n - 1
    IN [n \in 1..Cardinality(keep) |-> list[Nth(n)]]

\* AppStore.removeNotification(id) as a step.  .filter is a method of
\* arrays only: the call raises a TypeError on any other value.
removeNotificationStep(op, id) ==
    LET list == notificationsOf(state)
    IN IF list.k # "arr"
       THEN raisesStep(op)
       ELSE setStateStep(op, Obj("ui" :> Obj("notifications" :>
                                    Arr(withoutId(ListOf(list), id)))),
                         Obj("type" :> Atom("REMOVE_NOTIFICATION") @@
                             "payload" :> Atom(id)))

\* A caller calls removeNotification(id).
RemoveNotification(id) ==
    /\ removeNotificationStep("removeNotification", id)
    /\ UNCHANGED timeVars
    /\ UNCHANGED busVars

\* The setTimeout callback of addNotification runs:
\* removeNotification(newNotification.id).
NotificationTimerFire(t) ==
    /\ IsNextTimer(t)
    /\ timers[t].kind = "notification"
    /\ removeNotificationStep("expire", timers[t].arg)
    /\ timers' = [timers EXCEPT ![t].armed = FALSE]
    /\ UNCHANGED <<clock, notificationCount, gets, lastWrite>>
    /\ UNCHANGED busVars

\* The state reset() assigns to this.state.
ResetState(keepSettings, newTime) ==
    Obj("currentUser" :> Null @@
        "currentDate" :> Atom("2024-01-01") @@
        "currentTime" :> Atom(newTime) @@
        "settings" :> (IF keepSettings THEN Prop(state, "settings")
                       ELSE Obj(<<>>)) @@
        "ui" :> Obj("loading" :> Atom("false") @@
                    "notifications" :> Arr(<<>>) @@
                    "modal" :> Null @@
                    "sidebarOpen" :> Atom("false")) @@
        "cache" :> EmptyMap @@
        "cacheTimestamps" :> EmptyMap @@
        "cacheTTL" :> Num(cacheTTL))

\* The action reset() notifies: {type: 'RESET'}.
ResetAction == Obj("type" :> Atom("RESET"))

\* AppStore.reset(keepSettings): a new state tree, with the settings of the
\* old one or with {} for them; the clock shows newTime.
Reset(keepSettings, newTime) ==
    /\ state' = stateAfterNotify(listeners, ResetState(keepSettings, newTime),
                                 ResetAction)
    /\ lastCall' = Called("reset", FALSE,
                          notify(listeners, ResetState(keepSettings, newTime),
                                 ResetAction))
    /\ listeners' = listenersAfterNotify(listeners,
                                         ResetState(keepSettings, newTime),
                                         ResetAction)
    /\ lastWrite' = <<>>
    /\ UNCHANGED <<middleware, localStorage, destroyed>>
    /\ UNCHANGED <<clock, timers, notificationCount, gets>>
    /\ UNCHANGED busVars


(***************************************************************************)
(* AppStore: the cache                                                     *)
(*                                                                         *)
(* state.cache and state.cacheTimestamps are Maps: v is the function from  *)
(* their keys to the stored value and to the clock value of the write.     *)
(* The calls of outside code are tasks of the event loop: they run when no *)
(* timer callback is due.                                                  *)
(***************************************************************************)

\* Bounds of the cache model.
MaxCacheTimers == 2
MaxGets == 1
MaxCacheClock == 21

CacheKeys == {"k"}
CacheValues == {"v1"}
\* What a fetcher resolves to.
Fetched == "fetched"

\* this.state.cache.set(key, data); this.state.cacheTimestamps.set(key, t)
cacheSet(st, key, data, t) ==
    [st EXCEPT !.v["cache"].v = (key :> data) @@ @,
               !.v["cacheTimestamps"].v = (key :> t) @@ @]

\* AppStore.removeCache(key): both Maps without the key.
removeCache(st, key) ==
    [st EXCEPT
        !.v["cache"].v = [q \in DOMAIN @ \ {key} |-> @[q]],
        !.v["cacheTimestamps"].v = [q \in DOMAIN @ \ {key} |-> @[q]]]

\* The timers after setCache(key, _, ttl): `if (ttl) setTimeout(...)`.
cacheTimer(ts, key, ttl) ==
    IF ttl # 0
    THEN Append(ts, [kind |-> "cache", arg |-> key, due |-> clock + ttl,
                     armed |-> TRUE])
    ELSE ts

\* The lookup of getCache that never takes an entry for expired.
isFreshAlways(st, key, currentTTL) ==
    /\ key \in DOMAIN st.v["cache"].v
    /\ key \in DOMAIN st.v["cacheTimestamps"].v
    /\ st.v["cacheTimestamps"].v[key] # 0

\* The test of getCache: the key is in the cache, its timestamp is truthy
\* and Date.now() - timestamp < currentTTL.
isFresh(st, key, currentTTL) ==
    /\ key \in DOMAIN st.v["cache"].v
    /\ key \in DOMAIN st.v["cacheTimestamps"].v
    /\ st.v["cacheTimestamps"].v[key] # 0
    /\ clock - st.v["cacheTimestamps"].v[key] < currentTTL

\* The entry is there and has expired: getCache removes it.
isStale(st, key, currentTTL) ==
    /\ key \in DOMAIN st.v["cache"].v
    /\ key \in DOMAIN st.v["cacheTimestamps"].v
    /\ st.v["cacheTimestamps"].v[key] # 0
    /\ ~isFresh(st, key, currentTTL)

\* ttl || this.state.cacheTTL; a ttl that is not given is 0 in the model.
currentTTLOf(st, ttl) == IF ttl # 0 THEN ttl ELSE Prop(st, "cacheTTL").v

NoWrite == [data |-> "none", at |-> 0, ttl |-> 0]

\* AppStore.setCache(key, data, ttl) by a caller.
SetCache(key, data, ttl) ==
    /\ NoTimerDue
    /\ ttl # 0 => Len(timers) < MaxCacheTimers
    /\ state' = cacheSet(state, key, Atom(data), clock)
    /\ timers' = cacheTimer(timers, key, ttl)
    /\ lastWrite' = (key :> [data |-> data, at |-> clock, ttl |-> ttl]) @@ lastWrite
    /\ UNCHANGED <<listeners, middleware, localStorage, destroyed, lastCall,
                   clock, notificationCount, gets>>
    /\ UNCHANGED busVars

\* AppStore.removeCache(key) by a caller.
RemoveCache(key) ==
    /\ NoTimerDue
    /\ key \in DOMAIN state.v["cache"].v
    /\ state' = removeCache(state, key)
    /\ lastWrite' = [q \in DOMAIN lastWrite \ {key} |-> lastWrite[q]]
    /\ UNCHANGED <<listeners, middleware, localStorage, destroyed, lastCall,
                   clock, timers, notificationCount, gets>>
    /\ UNCHANGED busVars

\* The setTimeout callback of setCache runs: removeCache(key).
CacheTimerFire(t) ==
    /\ IsNextTimer(t)
    /\ timers[t].kind = "cache"
    /\ state' = removeCache(state, timers[t].arg)
    /\ timers' = [timers EXCEPT ![t].armed = FALSE]
    /\ UNCHANGED <<listeners, middleware, localStorage, destroyed, lastCall,
                   clock, notificationCount, gets, lastWrite>>
    /\ UNCHANGED busVars

\* getCache(key, fetcher, ttl) up to its return or its await: a fresh entry
\* is returned; an expired one is removed; then the fetcher is called and
\* awaited, or null is returned when there is none.
GetCacheStart(key, fetcher, ttl) ==
    /\ NoTimerDue
    /\ Len(gets) < MaxGets
    /\ LET currentTTL == currentTTLOf(state, ttl)
           hit == isFresh(state, key, currentTTL)
           call == [key |-> key, fetcher |-> fetcher, ttlGiven |-> ttl,
                    ttl |-> currentTTL, at |-> clock,
                    hit |-> hit,
                    stale |-> isStale(state, key, currentTTL),
                    written |-> IF key \in DOMAIN lastWrite
                                THEN lastWrite[key] ELSE NoWrite]
       IN /\ state' = IF isStale(state, key, currentTTL)
                      THEN removeCache(state, key) ELSE state
          /\ gets' = Append(gets,
                 IF hit
                 THEN call @@ [status |-> "returned", fetches |-> 0,
                               result |-> state.v["cache"].v[key]]
                 ELSE IF fetcher
                 THEN call @@ [status |-> "pending", fetches |-> 1,
                               result |-> Undefined]
                 ELSE call @@ [status |-> "returned", fetches |-> 0,
                               result |-> Null])
    /\ UNCHANGED <<listeners, middleware, localStorage, destroyed, lastCall,
                   clock, timers, notificationCount, lastWrite>>
    /\ UNCHANGED busVars

\* getCache number g resumes: the fetcher resolved and the data is stored
\* with setCache(key, data, currentTTL) and returned, or the fetcher failed
\* and the error is thrown again.
GetCacheResume(g, resolved) ==
    /\ NoTimerDue
    /\ g \in DOMAIN gets
    /\ gets[g].status = "pending"
    /\ IF resolved
       THEN /\ state' = cacheSet(state, gets[g].key, Atom(Fetched), clock)
            /\ timers' = cacheTimer(timers, gets[g].key, gets[g].ttl)
            /\ lastWrite' = (gets[g].key :>
                                [data |-> Fetched, at |-> clock,
                                 ttl |-> gets[g].ttl]) @@ lastWrite
            /\ gets' = [gets EXCEPT ![g].status = "returned",
                                    ![g].result = Atom(Fetched)]
       ELSE /\ gets' = [gets EXCEPT ![g].status = "threw"]
            /\ UNCHANGED <<state, timers, lastWrite>>
    /\ UNCHANGED <<listeners, middleware, localStorage, destroyed, lastCall,
                   clock, notificationCount>>
    /\ UNCHANGED busVars


(***************************************************************************)
(* AppStore: getState and the objects it hands out                         *)
(***************************************************************************)

\* A value the && operator stops at.
IsFalsy(x) ==
    \/ x.k = "atom" /\ x.v \in {"null", "undefined", "false", ""}
    \/ x.k = "num" /\ x.v = 0

\* path.split('.').reduce((obj, key) => obj && obj[key], x), the path given
\* as the sequence of its segments.
RECURSIVE reducePath(_, _)
reducePath(x, path) ==
    IF path = <<>> THEN x
    ELSE reducePath(IF IsFalsy(x) THEN x ELSE Prop(x, Head(path)), Tail(path))

\* AppStore.getState(path): the value the caller gets.  Without a path it is
\* {...this.state}, a new object whose properties hold the objects of the
\* tree themselves; with a path it is the value found in the tree itself.
getState(st, path) ==
    IF path = <<>> THEN spread(st, Obj(<<>>)) ELSE reducePath(st, path)

\* x with val assigned at the keys `path` below it.
RECURSIVE assignAt(_, _, _)
assignAt(x, path, val) ==
    IF path = <<>> THEN val
    ELSE [x EXCEPT !.v = (Head(path) :> assignAt(Prop(x, Head(path)),
                                                 Tail(path), val)) @@ x.v]

\* The tree after the holder of the value getState(path) returned assigned
\* val at the keys rel below that value.  Only the top level of
\* {...this.state} is an object of the caller's own; every object below it,
\* and every object getState(path) returns, is an object of the tree.
afterWriteThrough(st, path, rel, val) ==
    IF path = <<>> /\ Len(rel) = 1 THEN st
    ELSE assignAt(st, path \o rel, val)

\* The (path, rel) pairs of the model: getState() and getState(path) of an
\* object-valued path, written at depth one and two.
Writes ==
    { <<<<>>, <<"currentUser">>>>,
      <<<<>>, <<"ui", "loading">>>>,
      <<<<>>, <<"settings", "theme">>>>,
      <<<<"ui">>, <<"loading">>>>,
      <<<<"settings">>, <<"theme">>>> }

\* Outside code calls getState(path) and assigns val at rel below the value
\* it got.  The object it assigns to has to be there.
MutateReturned(path, rel, val) ==
    /\ reducePath(getState(state, path), SubSeq(rel, 1, Len(rel) - 1)).k = "obj"
    /\ state' = afterWriteThrough(state, path, rel, val)
    /\ lastCall' = Called("mutate", FALSE, <<>>)
    /\ UNCHANGED <<listeners, middleware, localStorage, destroyed>>
    /\ UNCHANGED timeVars
    /\ UNCHANGED busVars

\* The dot paths the callers of the model read, as their segments.
Paths ==
    { <<"ui", "loading">>,
      <<"ui", "modal">>,
      <<"ui", "modal", "title">>,
      <<"ui", "loading", "x">>,
      <<"currentUser", "name">>,
      <<"settings", "theme">>,
      <<"missing", "x">> }

\* store.getState(path) with a path: the call changes nothing in the store;
\* the path and the value returned are kept with the call.
GetState(path) ==
    /\ path # <<>>
    /\ lastCall' = [op |-> "getState", raised |-> FALSE,
                    afterDestroy |-> destroyed, notified |-> <<>>,
                    path |-> path, result |-> getState(state, path)]
    /\ UNCHANGED <<state, listeners, middleware, localStorage, destroyed>>
    /\ UNCHANGED timeVars
    /\ UNCHANGED busVars


StoreListenerNames == {"l1"}

InitStore ==
    /\ localStorage \in InitialStorage
    /\ state = loadSettings(DefaultState, localStorage)
    /\ listeners = <<>>
    /\ middleware = <<>>
    /\ destroyed = FALSE
    /\ lastCall = [op |-> "init", raised |-> FALSE, afterDestroy |-> FALSE,
                   notified |-> <<>>]
    /\ clock = 1
    /\ timers = <<>>
    /\ notificationCount = 0
    /\ gets = <<>>
    /\ lastWrite = <<>>

InitBus ==
    /\ events = <<>>
    /\ wildcardListeners = <<>>
    /\ history = <<>>
    /\ busMiddleware = <<>>
    /\ nextId = 0
    /\ emits = <<>>
    /\ waiters = <<>>

Init == InitStore /\ InitBus

\* The store built in a browser that holds no saved settings.
InitFresh == Init /\ localStorage = Null

NextStore ==
    \/ \E partial \in Partials : SetState(partial)
    \/ \E t \in Times : TimeUpdater(t)
    \/ \E l \in StoreListenerNames : StoreSubscribe(l, MaxStoreListeners)
    \/ \E kind \in MiddlewareKinds : StoreUse(kind, MaxStoreMiddleware)
    \/ Destroy

SpecStore == Init /\ [][NextStore]_vars

\* Bounds of the specification of listeners.
MaxListenListeners == 2
MaxListenNotifications == 1

\* The listener functions of the model: two that return and one that throws.
ListenerFunctions == {"l1", "l2", "bad"}

\* Listeners that return or throw, subscribed around setState calls of
\* callers, of addNotification and of the clock, and around reset() calls.
NextListen ==
    \/ \E l \in ListenerFunctions : StoreSubscribe(l, MaxListenListeners)
    \/ \E partial \in {Obj("ui" :> Obj("loading" :> Atom("true"))),
                        Obj("currentUser" :> Obj("name" :> Atom("a")))} :
           SetState(partial)
    \/ TimeUpdater("09:01")
    \/ AddNotification(Obj("type" :> Atom("info") @@ "message" :> Atom("m")),
                       MaxListenNotifications)
    \/ \E keepSettings \in BOOLEAN : Reset(keepSettings, "09:00")

SpecListen == InitFresh /\ [][NextListen]_vars

\* The partial states that put a value the && operator stops at, or a
\* mapping, at the places the paths of the model go through.
ReadPartials ==
    { Obj("ui" :> Obj("loading" :> Atom("true"))),
      Obj("ui" :> Obj("loading" :> Atom("false"))),
      Obj("ui" :> Obj("loading" :> Num(0))),
      Obj("ui" :> Obj("modal" :> Obj("title" :> Atom("t")))),
      Obj("ui" :> Obj("modal" :> Null)),
      Obj("currentUser" :> Obj("name" :> Atom("a"))),
      Obj("currentUser" :> Atom("")) }

\* setState calls and reads by dot path.
NextRead ==
    \/ \E partial \in ReadPartials : SetState(partial)
    \/ \E path \in Paths : GetState(path)

SpecRead == InitFresh /\ [][NextRead]_vars

\* Settings that are updated, saved when the page is left or the store is
\* destroyed and loaded by the next store, around setState and reset() calls
\* that change settings without saving.
NextSettings ==
    \/ \E newSettings \in SettingsInputs : UpdateSettings(newSettings)
    \/ SetState(Obj("settings" :> Obj("currency" :> Atom("USD"))))
    \/ \E keepSettings \in BOOLEAN : Reset(keepSettings, "09:00")
    \/ BeforeUnload
    \/ Destroy
    \/ Construct

SpecSettings == Init /\ [][NextSettings]_vars

\* Bounds of the specification of destroy().
MaxDestroyListeners == 2
MaxDestroyMiddleware == 1
MaxDestroyNotifications == 1
MaxDestroyClock == 5001

\* The listener functions subscribed before destroy() and the ones
\* subscribed after it.
EarlyListeners == {"l1"}
LateListeners == {"late"}

\* Listeners, middleware, a notification and a cache entry with their
\* timers, and the clock, around destroy(): the timers scheduled before it
\* fire after it, and callers go on using the store.
NextDestroy ==
    \/ \E l \in IF destroyed THEN LateListeners ELSE EarlyListeners :
           StoreSubscribe(l, MaxDestroyListeners)
    \/ StoreUse("identity", MaxDestroyMiddleware)
    \/ SetState(Obj("ui" :> Obj("loading" :> Atom("true"))))
    \/ AddNotification(Obj("type" :> Atom("info") @@ "message" :> Atom("m")),
                       MaxDestroyNotifications)
    \/ \E t \in 1..(MaxDestroyNotifications + MaxCacheTimers) :
           NotificationTimerFire(t)
    \/ SetCache("k", "v1", 20)
    \/ \E t \in 1..(MaxDestroyNotifications + MaxCacheTimers) :
           CacheTimerFire(t)
    \/ TimeUpdater("09:01")
    \/ Tick(5000, MaxDestroyClock)
    \/ Destroy

SpecDestroy == InitFresh /\ [][NextDestroy]_vars

\* Bound of the specification of store middleware.
MaxChainMiddleware == 2

\* The partial states the callers of the specification of store middleware
\* pass to setState.
ChainPartials ==
    { Obj("ui" :> Obj("loading" :> Atom("true"))),
      Obj("currentUser" :> Obj("name" :> Atom("a"))) }

\* Middleware functions of every kind registered in any order, and setState
\* calls that run them.
NextChain ==
    \/ \E kind \in MiddlewareKinds \cup TransformKinds :
           StoreUse(kind, MaxChainMiddleware)
    \/ \E partial \in ChainPartials : SetState(partial)

SpecChain == InitFresh /\ [][NextChain]_vars

\* Bounds of the specification of failing store middleware.
MaxThrowMiddleware == 2
MaxThrowListeners == 1

\* Middleware that throw among middleware that return a partial state, and
\* listeners, around setState calls.
NextThrow ==
    \/ \E kind \in {"throws", "stamp", "identity"} :
           StoreUse(kind, MaxThrowMiddleware)
    \/ StoreSubscribe("l1", MaxThrowListeners)
    \/ \E partial \in ChainPartials : SetState(partial)

SpecThrow == InitFresh /\ [][NextThrow]_vars

\* Bounds of the specification of listeners that unsubscribe while they are
\* notified.
MaxUnsubListeners == 3

\* The listener functions of that specification.
UnsubListeners == {"l1", "l2", "selfOff", "offL2"}

\* Listeners, some of which call an unsubscribe function when they are
\* notified, around setState and reset calls.
NextUnsub ==
    \/ \E l \in UnsubListeners : StoreSubscribe(l, MaxUnsubListeners)
    \/ \E partial \in ChainPartials : SetState(partial)
    \/ Reset(TRUE, "09:00")

SpecUnsub == InitFresh /\ [][NextUnsub]_vars

\* Bounds of the specification of the current user and the modal.
MaxUserListeners == 1

\* The users a caller passes to setCurrentUser.
Users ==
    { Null,
      Obj("name" :> Atom("a")),
      Obj("name" :> Atom("b") @@ "role" :> Atom("admin")),
      Obj("id" :> Atom("7")) }

\* The modals a caller passes to showModal.
Modals ==
    { Obj("title" :> Atom("t")),
      Obj("title" :> Atom("u") @@ "body" :> Atom("text")),
      Obj("confirm" :> Atom("true")) }

\* Users that are set and modals that are shown and hidden, one after
\* another, with a listener.
NextUser ==
    \/ StoreSubscribe("l1", MaxUserListeners)
    \/ \E user \in Users : SetCurrentUser(user)
    \/ \E modal \in Modals : ShowModal(modal)
    \/ HideModal

SpecUser == InitFresh /\ [][NextUser]_vars

\* Bounds of the specification of listeners that call setState.
MaxReenterListeners == 3

\* Listeners, one of which calls setState when it is notified, and
\* setState calls.
NextReenter ==
    \/ \E l \in {"l1", "l2", "again"} : StoreSubscribe(l, MaxReenterListeners)
    \/ \E partial \in ChainPartials : SetState(partial)

SpecReenter == InitFresh /\ [][NextReenter]_vars

\* Bounds of the specification of unsubscribe functions.
MaxIdemListeners == 3

\* Listeners that are registered, some of them more than once, unsubscribe
\* functions that are called once or twice, and setState calls.
NextIdem ==
    \/ \E l \in {"l1", "l2"} : StoreSubscribe(l, MaxIdemListeners)
    \/ \E l \in {"l1", "l2"}, repeated \in BOOLEAN : StoreUnsubscribe(l, repeated)
    \/ \E partial \in ChainPartials : SetState(partial)

SpecIdem == InitFresh /\ [][NextIdem]_vars

\* setState calls and outside code that writes to what getState returned.
NextView ==
    \/ \E partial \in Partials : SetState(partial)
    \/ \E w \in Writes : MutateReturned(w[1], w[2], Atom("mutated"))

SpecView == Init /\ [][NextView]_vars

\* The time to live the callers of the model give, in milliseconds.
TTLs == {0, 20}

\* Cache writes with and without a time to live, reads with and without a
\* fetcher, and the eviction timers, while time passes.
NextCache ==
    \/ \E key \in CacheKeys, data \in CacheValues, ttl \in TTLs :
           SetCache(key, data, ttl)
    \/ \E key \in CacheKeys : RemoveCache(key)
    \/ \E t \in 1..(MaxCacheTimers + MaxGets) : CacheTimerFire(t)
    \/ \E key \in CacheKeys, fetcher \in BOOLEAN, ttl \in {0, 10} :
           GetCacheStart(key, fetcher, ttl)
    \/ \E g \in 1..MaxGets, resolved \in BOOLEAN : GetCacheResume(g, resolved)
    \/ Tick(10, MaxCacheClock)

SpecCache == InitFresh /\ [][NextCache]_vars

\* Notifications that are added, removed and expire, around reset() calls.
NextNotify ==
    \/ \E notification \in NotificationInputs :
           AddNotification(notification, MaxNotifications)
    \/ \E n \in 1..MaxNotifications : RemoveNotification(NotificationIds[n])
    \/ \E t \in 1..MaxNotifications : NotificationTimerFire(t)
    \/ \E keepSettings \in BOOLEAN : Reset(keepSettings, "09:00")
    \/ \E d \in {3000, 5000} : Tick(d, MaxNotificationClock)

SpecNotify == Init /\ [][NextNotify]_vars

\* A timer that is due fires.
SpecNotifyFair ==
    SpecNotify /\ \A t \in 1..MaxNotifications : WF_vars(NotificationTimerFire(t))


(***************************************************************************)
(* AppStore: the claims                                                    *)
(***************************************************************************)

\* The step is a call of setState with newState, by a caller or by the timer.
IsSetState(newState) ==
    \/ lastCall'.op = "setState" /\ setStateStep("setState", newState, NoAction)
    \/ lastCall'.op = "timeUpdater" /\
           setStateStep("timeUpdater", newState, NoAction)

AllPartials == Partials \cup {TimePartial(t) : t \in Times}

\* Every key of old that partial does not mention, at any depth, is in new
\* with the value it had.  A key of partial that holds a mapping is entered
\* when old holds a mapping there too; a key of partial that holds anything
\* else mentions the whole subtree.
RECURSIVE Preserved(_, _, _)
Preserved(old, partial, new) ==
    \A key \in OwnKeys(old) :
        IF key \notin OwnKeys(partial)
        THEN key \in OwnKeys(new) /\ new.v[key] = old.v[key]
        ELSE (partial.v[key].k = "obj" /\ old.v[key].k = "obj") =>
                 /\ key \in OwnKeys(new)
                 /\ new.v[key].k = "obj"
                 /\ Preserved(old.v[key], partial.v[key], new.v[key])

\* C8: after destroy() every setState call raises and leaves the state tree
\* unchanged.
C8_SetStateAfterDestroyFails ==
    [][\A partial \in AllPartials :
          (destroyed /\ IsSetState(partial)) =>
              (lastCall'.raised /\ state' = state)]_vars

\* C9: setState(partial) preserves every key of the existing tree, at any
\* depth, that partial does not mention.
C9_SetStatePreservesUnmentioned ==
    [][\A partial \in AllPartials :
          IsSetState(partial) => Preserved(state, partial, state')]_vars

\* C9, witness: the store built without saved settings after
\* setState({ui:{loading:true}}) and setState({settings:{theme:'dark'}}):
\* both mutations are in the tree, with every sibling key as it was.
C9_Witness ==
    /\ localStorage = Null
    /\ lastCall.op = "setState"
    /\ state.v["ui"] = Obj("loading" :> Atom("true") @@
                           "notifications" :> Arr(<<>>) @@
                           "modal" :> Null @@
                           "sidebarOpen" :> Atom("false"))
    /\ state.v["settings"] = [DefaultSettings EXCEPT !.v["theme"] = Atom("dark")]

\* Only mapping-valued keys of partial are merged into a mapping of old;
\* every other value of partial is in new as it was given.
RECURSIVE ReplacedWholesale(_, _, _)
ReplacedWholesale(old, partial, new) ==
    \A key \in OwnKeys(partial) :
        /\ key \in OwnKeys(new)
        /\ IF partial.v[key].k = "obj" /\ Prop(old, key).k = "obj"
           THEN ReplacedWholesale(old.v[key], partial.v[key], new.v[key])
           ELSE new.v[key] = partial.v[key]

\* C10: in the deep merge of setState only mapping-valued keys are merged
\* recursively; every other value, a list such as ui.notifications
\* included, replaces the existing value wholesale.
C10_NonMappingsReplaceWholesale ==
    [][\A partial \in AllPartials :
          IsSetState(partial) => ReplacedWholesale(state, partial, state')]_vars


\* The entries of ui.notifications of st that carry the id.
EntriesWithId(st, id) ==
    {key \in OwnKeys(notificationsOf(st)) :
        Prop(notificationsOf(st).v[key], "id") = Atom(id)}

\* The notification the next addNotification(notification) call builds.
NewNotification(notification) ==
    spread(Obj("id" :> Atom(NotificationIds[notificationCount + 1]) @@
               "timestamp" :> Date(clock)),
           notification)

\* C11: ui.notifications is always a list; addNotification(n) returns
\* normally and appends one entry to it, the entries before it kept in
\* their order; removeNotification(id) returns normally and leaves the list
\* without an entry of that id, the other entries kept in their order.
C11_NotificationsAreTheListAdded ==
    /\ [](notificationsOf(state).k = "arr")
    /\ [][/\ \A notification \in NotificationInputs :
               AddNotification(notification, MaxNotifications) =>
                   /\ ~lastCall'.raised
                   /\ notificationsOf(state').k = "arr"
                   /\ ListOf(notificationsOf(state')) =
                          Append(ListOf(notificationsOf(state)),
                                 NewNotification(notification))
          /\ \A n \in 1..MaxNotifications :
               RemoveNotification(NotificationIds[n]) =>
                   /\ ~lastCall'.raised
                   /\ notificationsOf(state').k = "arr"
                   /\ ListOf(notificationsOf(state')) =
                          withoutId(ListOf(notificationsOf(state)),
                                    NotificationIds[n])]_vars

\* The notification of timer t was added as persistent or not.
IsPersistent(st, id) ==
    \E key \in EntriesWithId(st, id) :
        Prop(notificationsOf(st).v[key], "autoRemove") = Atom("false")

\* C12: the expiry timer of a notification removes it and does not raise; a
\* timer that is due fires; and a persistent notification stays in
\* ui.notifications in every step but a removeNotification of its id (and a
\* reset).
C12_ExpiryRemovesUnlessPersistent ==
    /\ [][\A t \in 1..MaxNotifications :
             NotificationTimerFire(t) =>
                 /\ ~lastCall'.raised
                 /\ EntriesWithId(state', timers[t].arg) = {}]_vars
    /\ [][\A n \in 1..MaxNotifications :
             (/\ IsPersistent(state, NotificationIds[n])
              /\ ~RemoveNotification(NotificationIds[n])
              /\ \A keepSettings \in BOOLEAN : ~Reset(keepSettings, "09:00")) =>
                 IsPersistent(state', NotificationIds[n])]_vars
    /\ \A t \in 1..MaxNotifications :
           (t \in DOMAIN timers /\ timers[t].due <= clock) ~>
               (/\ t \in DOMAIN timers
                /\ ~timers[t].armed
                /\ EntriesWithId(state, timers[t].arg) = {})


\* C13: an assignment to the value getState() or getState(path) returned,
\* at any depth, leaves the state tree as it was: a later getState returns
\* the values of before.
C13_GetStateIsDefensive ==
    [][\A w \in Writes :
          MutateReturned(w[1], w[2], Atom("mutated")) =>
              /\ state' = state
              /\ \A v \in Writes : getState(state', v[1]) = getState(state, v[1])]_vars


\* C14: getCache(k) called before the ttl of the last setCache(k, v, ttl)
\* has elapsed returns v; called after it has elapsed it does not return
\* the entry: it returns null, or calls the fetcher it was given.
C14_CacheHonoursTTL ==
    \A g \in DOMAIN gets :
        LET c == gets[g]
        IN (c.written.ttl # 0) =>
               IF c.at - c.written.at < c.written.ttl
               THEN c.ttlGiven = 0 =>
                        /\ c.status = "returned"
                        /\ c.result = Atom(c.written.data)
               ELSE /\ ~c.hit
                    /\ IF c.fetcher THEN c.fetches = 1 ELSE c.result = Null

\* The entries of the cache of st: the key is in both Maps.
HasEntry(st, key) ==
    /\ key \in DOMAIN st.v["cache"].v
    /\ key \in DOMAIN st.v["cacheTimestamps"].v

\* getCache number g is called in this step.
GetStarts(g) == Len(gets) = g - 1 /\ Len(gets') = g

\* getCache number g resumes in this step.
GetSettles(g) ==
    /\ g \in DOMAIN gets
    /\ gets[g].status = "pending"
    /\ gets'[g].status # "pending"

\* C15: getCache(key, fetcher, ttl) returns the entry of key, without a call
\* of the fetcher and without a change, when now - storedAt < ttl.
\* Otherwise no entry of key is left; the fetcher, when there is one, is
\* called once and awaited, and null is returned when there is none.  When
\* the fetcher resolves its result is stored under key with storedAt = now
\* and returned; when it fails the call throws and stores nothing.
C15_ReadThroughCache ==
    [][\A g \in 1..MaxGets :
          /\ GetStarts(g) =>
                 LET c == gets'[g]
                 IN IF HasEntry(state, c.key) /\
                       clock - state.v["cacheTimestamps"].v[c.key] < c.ttl
                    THEN /\ c.status = "returned"
                         /\ c.result = state.v["cache"].v[c.key]
                         /\ c.fetches = 0
                         /\ state' = state
                    ELSE /\ ~HasEntry(state', c.key)
                         /\ IF c.fetcher
                            THEN c.status = "pending" /\ c.fetches = 1
                            ELSE /\ c.status = "returned"
                                 /\ c.result = Null
                                 /\ c.fetches = 0
          /\ GetSettles(g) =>
                 LET c == gets'[g]
                 IN /\ c.fetches = 1
                    /\ \/ /\ c.status = "returned"
                          /\ c.result = Atom(Fetched)
                          /\ HasEntry(state', c.key)
                          /\ state'.v["cache"].v[c.key] = c.result
                          /\ state'.v["cacheTimestamps"].v[c.key] = clock
                       \/ /\ c.status = "threw"
                          /\ state' = state
          /\ (g \in DOMAIN gets /\ gets[g].status # "pending") =>
                 gets'[g] = gets[g]]_vars

\* C15, witness: a getCache call that found an expired entry, removed it,
\* awaited the fetcher and stored and returned what it resolved to.
C15_Witness ==
    \E g \in DOMAIN gets :
        /\ gets[g].stale
        /\ gets[g].status = "returned"
        /\ gets[g].fetches = 1
        /\ gets[g].result = Atom(Fetched)
        /\ HasEntry(state, gets[g].key)
        /\ state.v["cache"].v[gets[g].key] = Atom(Fetched)
        /\ state.v["cacheTimestamps"].v[gets[g].key] > gets[g].at


\* The calls that go through setState.
SetStateOps == {"setState", "timeUpdater", "addNotification"}

\* The partial states the callers of NextListen pass to setState.
ListenPartials ==
    {Obj("ui" :> Obj("loading" :> Atom("true"))),
     Obj("currentUser" :> Obj("name" :> Atom("a"))),
     TimePartial("09:01"),
     Obj("ui" :> Obj("notifications" :> Arr(<<NewNotification(
         Obj("type" :> Atom("info") @@ "message" :> Atom("m")))>>)))}

\* The actions those callers pass: none, or the one addNotification builds.
ListenActions ==
    {NoAction,
     Obj("type" :> Atom("ADD_NOTIFICATION") @@
         "payload" :> NewNotification(
             Obj("type" :> Atom("info") @@ "message" :> Atom("m"))))}

\* C21: when a listener throws during the notification of a setState (the
\* call got as far as notify), every registered listener has still been
\* called, once and in registration order, with the new state tree and the
\* action of the call; the merge is in the state tree and setState returns
\* normally.
C21_ListenerErrorsAreIsolated ==
    [][(/\ lastCall'.op \in SetStateOps
        /\ lastCall'.notified # <<>>
        /\ \E k \in 1..Len(listeners) : listeners[k] \in ThrowingListeners) =>
           /\ ~lastCall'.raised
           /\ \E partial \in ListenPartials :
                  state' = mergeDeep(state, runMiddleware(middleware, partial))
           /\ Len(lastCall'.notified) = Len(listeners)
           /\ \E action \in ListenActions :
                  \A k \in 1..Len(listeners) :
                      /\ lastCall'.notified[k].listener = listeners[k]
                      /\ lastCall'.notified[k].state = state'
                      /\ lastCall'.notified[k].action = action
           /\ listeners' = listeners]_vars

\* C21, witness: a setState call has notified a listener that threw and,
\* after it, a listener that returned.
C21_Witness ==
    /\ lastCall.op = "setState"
    /\ ~lastCall.raised
    /\ Len(lastCall.notified) = 2
    /\ lastCall.notified[1].threw
    /\ ~lastCall.notified[2].threw
    /\ lastCall.notified[2].state = state
    /\ Prop(Prop(state, "ui"), "loading") = Atom("true")


\* Every segment of path names an own key under x.
RECURSIVE Exists(_, _)
Exists(x, path) ==
    \/ path = <<>>
    \/ /\ Head(path) \in OwnKeys(x)
       /\ Exists(x.v[Head(path)], Tail(path))

\* The value under x at a path whose every segment exists.
RECURSIVE ValueAt(_, _)
ValueAt(x, path) ==
    IF path = <<>> THEN x ELSE ValueAt(x.v[Head(path)], Tail(path))

\* C22: getState(path) returns the value at the dot path when every segment
\* exists and undefined when a segment is absent, also when the segment
\* before it holds null, false, 0 or the empty string.
C22_GetStateByPath ==
    lastCall.op = "getState" =>
        lastCall.result = IF Exists(state, lastCall.path)
                          THEN ValueAt(state, lastCall.path)
                          ELSE Undefined


\* A value of a key that JSON.stringify writes and JSON.parse reads back as
\* it was; a key that holds undefined is left out of the text.
SurvivesJSON(x) == x # Undefined /\ JSONValue(x) = x

\* C23: updateSettings(p) leaves localStorage holding the JSON text of the
\* whole settings subtree, which is the settings of before with the keys of
\* p over them; a store constructed against that localStorage has the
\* default settings with the saved settings over them, so that every key of
\* p whose value JSON keeps has the value of p in the new store.
C23_SettingsRoundTrip ==
    [][/\ \A p \in SettingsInputs :
              (lastCall'.op = "updateSettings" /\ UpdateSettings(p)) =>
                  /\ Prop(state', "settings") = spread(Prop(state, "settings"), p)
                  /\ localStorage' = JSONstringify(Prop(state', "settings"))
                  /\ SurvivesJSON(Prop(state', "settings")) =>
                         JSONparse(localStorage') = Prop(state', "settings")
       /\ (lastCall'.op = "construct" /\ Construct /\ localStorage # Null) =>
              /\ Prop(state', "settings") =
                     spread(DefaultSettings, JSONparse(localStorage))
              /\ lastCall.op = "updateSettings" =>
                     \A key \in OwnKeys(lastCall.payload) :
                         SurvivesJSON(lastCall.payload.v[key]) =>
                             Prop(Prop(state', "settings"), key) =
                                 lastCall.payload.v[key]]_vars

\* A store constructed right after updateSettings({theme: 'dark'}) on a store
\* that had the default theme: its theme is 'dark'.
C23_Witness ==
    /\ lastCall.op = "construct"
    /\ Prop(Prop(state, "settings"), "theme") = Atom("dark")
    /\ Prop(Prop(state, "settings"), "language") = Atom("en")
    /\ localStorage # Null
    /\ Prop(JSONparse(localStorage), "debug") = Atom("true")


\* The state tree the constructor builds when the clock shows newTime.
DefaultsAt(newTime) ==
    [DefaultState EXCEPT !.v["currentTime"] = Atom(newTime)]

\* C24: reset(keepSettings) makes the state tree the default one and calls
\* every registered listener once with the action {type: 'RESET'}.  With
\* keepSettings the settings are those of before; without it they are the
\* default settings.  Listeners and middleware stay registered.
C24_ResetRestoresDefaults ==
    [][\A keepSettings \in BOOLEAN :
          (lastCall'.op = "reset" /\ Reset(keepSettings, "09:00")) =>
              /\ \A key \in OwnKeys(DefaultState) \ {"settings"} :
                     Prop(state', key) = Prop(DefaultsAt("09:00"), key)
              /\ OwnKeys(state') = OwnKeys(DefaultState)
              /\ Prop(state', "settings") =
                     IF keepSettings THEN Prop(state, "settings")
                     ELSE DefaultSettings
              /\ Len(lastCall'.notified) = Len(listeners)
              /\ \A k \in 1..Len(listeners) :
                     /\ lastCall'.notified[k].listener = listeners[k]
                     /\ lastCall'.notified[k].state = state'
                     /\ lastCall'.notified[k].action =
                            Obj("type" :> Atom("RESET"))
              /\ listeners' = listeners
              /\ middleware' = middleware]_vars


\* C29: destroy() saves the settings subtree to localStorage, empties the
\* listener list and the middleware list and clears every cache entry; no
\* listener registered before it is called by a later state change, also
\* not by one a timer scheduled before destroy() makes.
C29_DestroyDropsListeners ==
    [][/\ (lastCall'.op = "destroy" /\ Destroy) =>
              /\ localStorage' = JSONstringify(Prop(state, "settings"))
              /\ listeners' = <<>>
              /\ middleware' = <<>>
              /\ Prop(state', "cache") = EmptyMap
              /\ Prop(state', "cacheTimestamps") = EmptyMap
       /\ destroyed =>
              \A k \in 1..Len(lastCall'.notified) :
                  lastCall'.notified[k].listener \in LateListeners]_vars

\* A listener was subscribed and a notification added, then destroy() was
\* called and another listener subscribed; the timer of the notification
\* fired, and the interval callback of the clock made a setState that
\* called the later listener alone.
C29_Witness ==
    /\ destroyed
    /\ lastCall.op = "timeUpdater" /\ lastCall.afterDestroy
    /\ Len(lastCall.notified) = 1
    /\ lastCall.notified[1].listener \in LateListeners
    /\ listeners = <<"late">>
    /\ localStorage = JSONstringify(DefaultSettings)
    /\ \E t \in DOMAIN timers : timers[t].kind = "notification" /\ ~timers[t].armed


\* The middleware of `kind` returns a value.
ReturnsValue(kind, input) ==
    kind # "throws" /\ returned(kind, input) # Undefined

\* What stage j of the list mws is given when setState was called with
\* partial: the partial itself for the first stage, and for any other what
\* the stage before it returned or, when that returned nothing, what it was
\* given.
RECURSIVE ChainInput(_, _, _)
ChainInput(mws, partial, j) ==
    IF j = 1 THEN partial
    ELSE LET before == ChainInput(mws, partial, j - 1)
         IN IF ReturnsValue(mws[j - 1], before)
            THEN returned(mws[j - 1], before) ELSE before

\* The value setState merges: what the last stage that returned a value
\* returned, the partial itself when no stage returned a value.
ChainOutput(mws, partial) ==
    LET returning == {j \in 1..Len(mws) :
                         ReturnsValue(mws[j], ChainInput(mws, partial, j))}
    IN IF returning = {} THEN partial
       ELSE LET last == CHOOSE j \in returning : \A q \in returning : q <= j
            IN returned(mws[last], ChainInput(mws, partial, last))

\* C30: setState calls the middleware in the order they were registered,
\* each with the partial state the one before it produced; it merges what
\* the last middleware that returned a value returned; a middleware that
\* returns nothing leaves the partial state it was given for the next one
\* and for the merge.
C30_MiddlewareInRegistrationOrder ==
    [][\A partial \in ChainPartials :
          (lastCall'.op = "setState" /\
               setStateStep("setState", partial, NoAction)) =>
              /\ Len(stagesOf(middleware, partial)) = Len(middleware)
              /\ \A j \in 1..Len(middleware) :
                     /\ stagesOf(middleware, partial)[j].kind = middleware[j]
                     /\ stagesOf(middleware, partial)[j].input =
                            ChainInput(middleware, partial, j)
              /\ state' = mergeDeep(state, ChainOutput(middleware, partial))
              /\ middleware' = middleware]_vars

\* With a middleware that returns {} registered before one that adds a key
\* to what it is given, setState({ui: {loading: true}}) merged the added
\* key alone.
C30_Witness ==
    /\ middleware = <<"veto", "stamp">>
    /\ lastCall.op = "setState"
    /\ Prop(state, "stamped") = Atom("true")
    /\ Prop(Prop(state, "ui"), "loading") = Atom("false")
    /\ Prop(state, "currentUser") = Null


\* The middleware list without the functions that throw.
RECURSIVE WithoutThrowing(_)
WithoutThrowing(mws) ==
    IF mws = <<>> THEN <<>>
    ELSE IF Head(mws) = "throws" THEN WithoutThrowing(Tail(mws))
    ELSE <<Head(mws)>> \o WithoutThrowing(Tail(mws))

\* C31: a middleware that throws during setState is skipped: the next one
\* is given the partial state the failing one was given, the merge is that
\* of the list without the failing ones, every listener is called and
\* setState returns.
C31_ThrowingMiddlewareIsSkipped ==
    [][\A partial \in ChainPartials :
          (/\ lastCall'.op = "setState"
           /\ setStateStep("setState", partial, NoAction)
           /\ \E j \in 1..Len(middleware) : middleware[j] = "throws") =>
              /\ ~lastCall'.raised
              /\ \A j \in 1..(Len(middleware) - 1) :
                     middleware[j] = "throws" =>
                         stagesOf(middleware, partial)[j + 1].input =
                             stagesOf(middleware, partial)[j].input
              /\ state' = mergeDeep(state,
                               runMiddleware(WithoutThrowing(middleware), partial))
              /\ Len(lastCall'.notified) = Len(listeners)
              /\ \A k \in 1..Len(listeners) :
                     /\ lastCall'.notified[k].listener = listeners[k]
                     /\ lastCall'.notified[k].state = state']_vars

\* With a middleware that throws registered before one that adds a key,
\* setState({ui: {loading: true}}) merged the partial state with the added
\* key and called the listener.
C31_Witness ==
    /\ middleware = <<"throws", "stamp">>
    /\ lastCall.op = "setState" /\ ~lastCall.raised
    /\ Len(lastCall.notified) = 1
    /\ Prop(state, "stamped") = Atom("true")
    /\ Prop(Prop(state, "ui"), "loading") = Atom("true")


\* The number of times the listener function l occurs in the list ls.
Registrations(ls, l) == Cardinality({k \in 1..Len(ls) : ls[k] = l})

\* The number of calls of the listener function l among the calls made.
CallsOf(notified, l) ==
    Cardinality({k \in 1..Len(notified) : notified[k].listener = l})

\* C34: every listener registered when a setState or a reset begins is
\* called exactly once for that state change, also when a listener calls
\* an unsubscribe function during the notification.
C34_EveryRegisteredListenerIsCalledOnce ==
    [][lastCall'.op \in {"setState", "reset"} =>
          \A l \in UnsubListeners :
              CallsOf(lastCall'.notified, l) = Registrations(listeners, l)]_vars


\* C37: after setCurrentUser(u) the stored currentUser is u and after
\* showModal(m) the stored ui.modal is m, whatever was stored before: no key
\* of the previous user or modal survives the call.
C37_UserAndModalAreReplaced ==
    [][/\ \A user \in Users :
              SetCurrentUser(user) => Prop(state', "currentUser") = user
       /\ \A modal \in Modals :
              ShowModal(modal) => Prop(Prop(state', "ui"), "modal") = modal]_vars


\* C38: each listener is given the actions of successive setState calls in
\* the order the calls were made, each with the state that call produced,
\* also when a listener calls setState while it is notified: no listener is
\* called with the action of the inner call before it was called with the
\* action of the outer call.
C38_ActionsArriveInCallOrder ==
    [][\A partial \in ChainPartials :
          SetState(partial) =>
              LET log == lastCall'.notified
                  produced == mergeDeep(state, runMiddleware(middleware, partial))
              IN /\ \A a, b \in 1..Len(log) :
                        (/\ log[a].listener = log[b].listener
                         /\ log[a].action = NoAction
                         /\ log[b].action = InnerAction) => a < b
                 /\ \A a \in 1..Len(log) :
                        log[a].action = NoAction => log[a].state = produced]_vars


\* C39: an unsubscribe function removes one registration, its own, and is
\* idempotent: called a second time it leaves the listener list as it is,
\* also when the listener function is registered more than once.
C39_UnsubscribeIsIdempotent ==
    [][\A l \in {"l1", "l2"} :
          /\ (StoreUnsubscribe(l, FALSE) /\ ~lastCall'.repeated) =>
                 /\ Len(listeners') = Len(listeners) - 1
                 /\ Registrations(listeners', l) = Registrations(listeners, l) - 1
          /\ (StoreUnsubscribe(l, TRUE) /\ lastCall'.repeated) =>
                 listeners' = listeners]_vars


\* C33: an eviction timer removes an entry only when the ttl of the
\* setCache that wrote the entry has elapsed since that write: the timer of
\* an earlier setCache of the key never removes a newer entry whose own
\* ttl has not elapsed.
C33_EvictionOnlyAfterOwnTTL ==
    [][\A t \in 1..(MaxCacheTimers + MaxGets) :
          (CacheTimerFire(t) /\ HasEntry(state, timers[t].arg)) =>
              LET written == lastWrite[timers[t].arg]
              IN written.ttl # 0 => clock - written.at >= written.ttl]_vars


(***************************************************************************)
(* EventBus                                                                *)
(*                                                                         *)
(* A listener is [id, cb, once, priority]; `cb` names the callback         *)
(* function.  An emit() call is an async function: it runs to its first    *)
(* await, which is the await of the first listener it invoked, and is      *)
(* resumed once per awaited listener.  Between two of its steps any other  *)
(* call on the bus may run (the caller goes on after emit() returned its   *)
(* promise, a callback calls into the bus, a timer fires).                 *)
(***************************************************************************)

\* Bounds of the bus model.
MaxListeners == 3
MaxEmits == 2
MaxWaiters == 1

\* this.maxHistorySize
maxHistorySize == 100

Names == {"x"}
Payloads == {"p"}
WaiterCallbacks == <<"waiter1", "waiter2", "waiter3">>

\* The ids of the listeners of a list.
IdsOf(list) == {list[i].id : i \in 1..Len(list)}
Remove(list, idx) == SubSeq(list, 1, idx - 1) \o SubSeq(list, idx + 1, Len(list))

\* A listener put in front of the listeners of its own priority.
insertBeforeEqual(sorted, l) ==
    LET n == Cardinality({i \in 1..Len(sorted) : sorted[i].priority > l.priority})
    IN SubSeq(sorted, 1, n) \o <<l>> \o SubSeq(sorted, n + 1, Len(sorted))

\* One step of the stable sort: l goes behind every listener whose priority
\* is at least its own.
insertStable(sorted, l) ==
    LET n == Cardinality({i \in 1..Len(sorted) : sorted[i].priority >= l.priority})
    IN SubSeq(sorted, 1, n) \o <<l>> \o SubSeq(sorted, n + 1, Len(sorted))

\* listeners.sort((a, b) => b.priority - a.priority): Array.prototype.sort
\* is stable, listeners the comparator calls equal keep their order.
RECURSIVE sortByPriority(_)
sortByPriority(list) ==
    IF Len(list) <= 1 THEN list
    ELSE insertStable(sortByPriority(SubSeq(list, 1, Len(list) - 1)),
                      list[Len(list)])

\* EventBus.on: the new value of this.events.
on(ev, name, listener) ==
    LET old == IF name \in DOMAIN ev THEN ev[name] ELSE <<>>
    IN [n \in DOMAIN ev \cup {name} |->
           IF n = name THEN sortByPriority(Append(old, listener)) ELSE ev[n]]

\* Array.prototype.findIndex over the indexes `hits` that satisfy the
\* predicate: the first of them, 0 for none (-1 in the code).
firstOf(hits) ==
    IF hits = {} THEN 0 ELSE CHOOSE i \in hits : \A j \in hits : i <= j

\* listeners.findIndex(l => l.id === id)
findIndexById(list, id) ==
    firstOf({i \in 1..Len(list) : list[i].id = id})

\* listeners.findIndex(l => l.callback === cb)
findIndexByCallback(list, cb) ==
    firstOf({i \in 1..Len(list) : list[i].cb = cb})

\* off() that knows listener ids only: a function selects nothing.
offByIdOnly(ev, name, sel) ==
    IF name \notin DOMAIN ev THEN ev
    ELSE LET list == ev[name]
             index == IF sel.kind = "id"
                      THEN IF \E i \in 1..Len(list) : list[i].id = sel.id
                           THEN CHOOSE i \in 1..Len(list) : list[i].id = sel.id
                           ELSE 0
                      ELSE 0
             spliced == IF index > 0 THEN Remove(list, index) ELSE list
         IN IF sel.kind = "all" \/ Len(spliced) = 0
            THEN [n \in DOMAIN ev \ {name} |-> ev[n]]
            ELSE [ev EXCEPT ![name] = spliced]

\* EventBus.off(eventName, listenerIdOrCallback): the new value of
\* this.events.  sel is [kind |-> "all"] for null, [kind |-> "id", id |-> _]
\* for a string and [kind |-> "fn", cb |-> _] for a function.
\* off that removes every listener the selector matches.
offRemovesEveryMatch(ev, name, sel) ==
    IF name \notin DOMAIN ev THEN ev
    ELSE LET list == ev[name]
             keep == {i \in 1..Len(list) :
                         /\ ~(sel.kind = "id" /\ list[i].id = sel.id)
                         /\ ~(sel.kind = "fn" /\ list[i].cb = sel.cb)}
             kept == [i \in 1..Cardinality(keep) |->
                         list[CHOOSE j \in keep :
                                  Cardinality({q \in keep : q <= j}) = i]]
         IN IF sel.kind = "all" \/ Len(kept) = 0
            THEN [n \in DOMAIN ev \ {name} |-> ev[n]]
            ELSE [ev EXCEPT ![name] = kept]

\* off that leaves the name in the map when its list became empty.
offKeepsEmptyList(ev, name, sel) ==
    IF name \notin DOMAIN ev THEN ev
    ELSE LET list == ev[name]
             index == CASE sel.kind = "id" -> findIndexById(list, sel.id)
                        [] sel.kind = "fn" -> findIndexByCallback(list, sel.cb)
                        [] OTHER -> 0
             spliced == IF index > 0 THEN Remove(list, index) ELSE list
         IN IF sel.kind = "all"
            THEN [n \in DOMAIN ev \ {name} |-> ev[n]]
            ELSE [ev EXCEPT ![name] = spliced]

off(ev, name, sel) ==
    IF name \notin DOMAIN ev THEN ev
    ELSE LET list == ev[name]
             index == CASE sel.kind = "id" -> findIndexById(list, sel.id)
                        [] sel.kind = "fn" -> findIndexByCallback(list, sel.cb)
                        [] OTHER -> 0
             spliced == IF index > 0 THEN Remove(list, index) ELSE list
         IN IF sel.kind = "all" \/ Len(spliced) = 0
            THEN [n \in DOMAIN ev \ {name} |-> ev[n]]
            ELSE [ev EXCEPT ![name] = spliced]

\* EventBus.listenerCount(eventName)
listenerCount(ev, name) == IF name \in DOMAIN ev THEN Len(ev[name]) ELSE 0

\* EventBus.hasEvent(name)
hasEvent(ev, name) == name \in DOMAIN ev /\ Len(ev[name]) > 0

\* EventBus.eventNames(): the keys of this.events.
eventNames(ev) == DOMAIN ev

\* getStats().totalListeners: the lengths of the values of this.events, added
\* up.
RECURSIVE sumOfLengths(_, _)
sumOfLengths(ev, keys) ==
    IF keys = {} THEN 0
    ELSE LET n == CHOOSE n \in keys : TRUE
         IN Len(ev[n]) + sumOfLengths(ev, keys \ {n})

totalListeners(ev) == sumOfLengths(ev, DOMAIN ev)

\* addToHistory without the size limit.
addToHistoryUnbounded(h, event) == Append(h, event)

\* addToHistory that puts the newest event first.
addToHistoryNewestFirst(h, event) ==
    LET pushed == <<event>> \o h
    IN IF Len(pushed) > maxHistorySize
       THEN SubSeq(pushed, 1, maxHistorySize) ELSE pushed

\* EventBus.addToHistory: push, then shift when the limit is exceeded.
addToHistory(h, event) ==
    LET pushed == Append(h, event)
    IN IF Len(pushed) > maxHistorySize THEN Tail(pushed) ELSE pushed


\* The limit of getHistory() when none is given.
defaultHistoryLimit == 50

\* EventBus.getHistory(limit): this.history.slice(-limit); slice(-0) is the
\* whole list.
getHistory(h, limit) ==
    IF limit = 0 \/ limit >= Len(h) THEN h
    ELSE SubSeq(h, Len(h) - limit + 1, Len(h))

\* this.history.filter(event => event.name === eventName)
RECURSIVE filterByName(_, _)
filterByName(h, name) ==
    IF h = <<>> THEN <<>>
    ELSE (IF Head(h).name = name THEN <<Head(h)>> ELSE <<>>)
             \o filterByName(Tail(h), name)

\* EventBus.getEventHistory(eventName, limit): the events of the name,
\* then slice(-limit).
getEventHistory(h, name, limit) == getHistory(filterByName(h, name), limit)

\* The listener record of on(); onAny() builds {callback, id} only, which
\* the model writes with once = FALSE and priority = 0.
Listener(id, cb, once, priority) ==
    [id |-> id, cb |-> cb, once |-> once, priority |-> priority]

\* What executeListener resolves to when the callback returns: the model
\* lets each callback return its own name.
ReturnOf(l) == [error |-> FALSE, value |-> l.cb]
\* The {error} entry pushed in the catch block.
ErrorMarker == [error |-> TRUE, value |-> "error"]

\* The ways an awaited callback ends: it returns a value, it returns a
\* promise that rejects, or it throws (executeListener then rejects).
Outcomes == {"value", "reject", "throw"}

\* The waitFor callback without its clearTimeout(timer).
invokeKeepsTimer(ws, l, event) ==
    [w \in DOMAIN ws |->
        IF ws[w].cb = l.cb
        THEN [ws[w] EXCEPT
                 !.status = IF @ = "pending" THEN "resolved" ELSE @,
                 !.value = IF ws[w].status = "pending" THEN event ELSE @]
        ELSE ws[w]]

\* The callback of l is called with (event.data, event).  Only the callback
\* that waitFor builds changes the bus state: clearTimeout(timer) and
\* resolve({data, event}), which settles the promise if it is pending.
invoke(ws, l, event) ==
    [w \in DOMAIN ws |->
        IF ws[w].cb = l.cb
        THEN [ws[w] EXCEPT
                 !.timer = IF @ = "armed" THEN "cleared" ELSE @,
                 !.status = IF @ = "pending" THEN "resolved" ELSE @,
                 !.value = IF ws[w].status = "pending" THEN event ELSE @]
        ELSE ws[w]]

\* emit() leaves the loops at the first failing listener.
nextListenerAbortOnError(f, wl) ==
    IF f.failed # {} THEN [f EXCEPT !.pc = "done"]
    ELSE IF f.pc = "listener" /\ f.i < Len(f.snap)
    THEN [f EXCEPT !.i = f.i + 1, !.calls = Append(@, f.snap[f.i + 1])]
    ELSE LET k == IF f.pc = "wild" THEN f.wi + 1 ELSE 1
         IN IF k <= Len(wl)
            THEN [f EXCEPT !.pc = "wild", !.wi = k, !.calls = Append(@, wl[k])]
            ELSE [f EXCEPT !.pc = "done"]

\* emit() calls every listener of the copied list at once and awaits them
\* together.
nextListenerAllAtOnce(f, wl) ==
    IF f.pc = "listener" /\ f.i < Len(f.snap)
    THEN [f EXCEPT !.i = Len(f.snap),
                   !.calls = @ \o SubSeq(f.snap, f.i + 1, Len(f.snap))]
    ELSE LET k == IF f.pc = "wild" THEN f.wi + 1 ELSE 1
         IN IF k <= Len(wl)
            THEN [f EXCEPT !.pc = "wild", !.wi = k, !.calls = Append(@, wl[k])]
            ELSE [f EXCEPT !.pc = "done"]

\* emit() behind a dispatch lock: while another emit() is in flight a new
\* one calls no listener.
nextListenerLocked(f, wl) ==
    IF \E e \in DOMAIN emits : emits[e].pc # "done" /\ emits[e].event # f.event
    THEN [f EXCEPT !.pc = "done"]
    ELSE IF f.pc = "listener" /\ f.i < Len(f.snap)
    THEN [f EXCEPT !.i = f.i + 1, !.calls = Append(@, f.snap[f.i + 1])]
    ELSE LET k == IF f.pc = "wild" THEN f.wi + 1 ELSE 1
         IN IF k <= Len(wl)
            THEN [f EXCEPT !.pc = "wild", !.wi = k, !.calls = Append(@, wl[k])]
            ELSE [f EXCEPT !.pc = "done"]

\* The two for-of loops of emit(): the frame f moved to the next listener
\* it calls.  The first loop walks the copy `snap` taken at the start, the
\* second walks the live this.wildcardListeners (wl) by index.
nextListener(f, wl) ==
    IF f.pc = "listener" /\ f.i < Len(f.snap)
    THEN [f EXCEPT !.i = f.i + 1, !.calls = Append(@, f.snap[f.i + 1])]
    ELSE LET k == IF f.pc = "wild" THEN f.wi + 1 ELSE 1
         IN IF k <= Len(wl)
            THEN [f EXCEPT !.pc = "wild", !.wi = k, !.calls = Append(@, wl[k])]
            ELSE [f EXCEPT !.pc = "done"]

\* The listener a frame is awaiting.
Current(f) == f.calls[Len(f.calls)]

\* The middleware functions a caller may register with use(): "a" and "b"
\* return a replacement event, "silent" returns nothing, "rejects" returns
\* a promise that rejects and "throws" throws before it returns.
BusMiddlewareKinds == {"a", "b", "rename", "silent", "rejects", "throws"}

\* A stage whose failure leaves its mark on the event.
stageResultKeepsFailure(kind, input) == [input EXCEPT !.data = kind]

\* processedEvent after `await middleware(processedEvent)` ended for a
\* stage of `kind`: the replacement when there is one, the event as it was
\* when the stage returned nothing or failed.
stageResult(kind, input) ==
    CASE kind \in {"a", "b"} -> [input EXCEPT !.data = kind]
      [] kind = "rename" -> [input EXCEPT !.name = "y"]
      [] OTHER -> input

\* The middleware loop of an emit() that takes the listener list of the
\* name the processed event carries.
nextStageByProcessedName(f, mws, ev, wl) ==
    LET awaited == {j \in (f.mi + 1)..Len(mws) : mws[j] # "throws"}
        k == IF awaited = {} THEN Len(mws)
             ELSE CHOOSE j \in awaited : \A q \in awaited : j <= q
        ran == [f EXCEPT
                   !.mi = k,
                   !.stages = @ \o [j \in 1..(k - f.mi) |->
                                      [kind |-> mws[f.mi + j],
                                       input |-> f.processed]]]
    IN IF awaited # {}
       THEN [ran EXCEPT !.pc = "mw"]
       ELSE nextListener([ran EXCEPT
                             !.pc = "listener",
                             !.snap = IF f.processed.name \in DOMAIN ev
                                      THEN ev[f.processed.name] ELSE <<>>],
                         wl)

\* The middleware loop of emit(), from the frame f whose stage f.mi has
\* ended: the following stages are called with processedEvent.  A stage
\* that throws is caught at once and the loop goes on; at any other stage
\* emit() awaits.  After the last stage the listener list of the event
\* name is copied from this.events (ev) and the first listener is called.
nextStage(f, mws, ev, wl) ==
    LET awaited == {j \in (f.mi + 1)..Len(mws) : mws[j] # "throws"}
        k == IF awaited = {} THEN Len(mws)
             ELSE CHOOSE j \in awaited : \A q \in awaited : j <= q
        ran == [f EXCEPT
                   !.mi = k,
                   !.stages = @ \o [j \in 1..(k - f.mi) |->
                                      [kind |-> mws[f.mi + j],
                                       input |-> f.processed]]]
    IN IF awaited # {}
       THEN [ran EXCEPT !.pc = "mw"]
       ELSE nextListener([ran EXCEPT
                             !.pc = "listener",
                             !.snap = IF f.name \in DOMAIN ev
                                      THEN ev[f.name] ELSE <<>>],
                         wl)

\* EventBus.on(eventName, callback, {once, priority}), at most `limit`
\* registrations in all.
On(name, cb, once, priority, limit) ==
    /\ nextId < limit
    /\ nextId' = nextId + 1
    /\ events' = on(events, name, Listener(nextId + 1, cb, once, priority))
    /\ UNCHANGED <<wildcardListeners, history, busMiddleware, emits, waiters>>
    /\ UNCHANGED storeVars

\* The unsubscribe function on() returned for listener id: off(name, id).
Unsubscribe(name, id) ==
    /\ name \in DOMAIN events
    /\ id \in IdsOf(events[name])
    /\ events' = off(events, name, [kind |-> "id", id |-> id])
    /\ UNCHANGED <<wildcardListeners, history, busMiddleware, nextId, emits,
                   waiters>>
    /\ UNCHANGED storeVars

\* EventBus.onAny(callback)
OnAny(cb, limit) ==
    /\ nextId < limit
    /\ nextId' = nextId + 1
    /\ wildcardListeners' =
           Append(wildcardListeners, Listener(nextId + 1, cb, FALSE, 0))
    /\ UNCHANGED <<events, history, busMiddleware, emits, waiters>>
    /\ UNCHANGED storeVars

\* emit(eventName, data) up to its first await: the event is built and
\* added to the history, then the middleware loop is entered; without an
\* awaited stage the listener list is copied and the first listener is
\* called.
\* The array the middleware loop of the frame f walks: this.middleware as
\* it is now, or the array destroy() replaced while the loop was under way.
middlewareOf(f) == IF f.mwDetached THEN f.mws ELSE busMiddleware

\* The array the wildcard loop of the frame f walks: this.wildcardListeners
\* as it is now, or the array clear() replaced while the loop was under way.
wildcardsOf(f) == IF f.wlDetached THEN f.wl ELSE wildcardListeners

EmitStart(name, data, limit) ==
    /\ Len(emits) < limit
    /\ LET event == [name |-> name, data |-> data, id |-> Len(emits) + 1]
           f0 == [name |-> name, event |-> event, processed |-> event,
                  pc |-> "mw", mi |-> 0, stages |-> <<>>, snap |-> <<>>,
                  i |-> 0, wi |-> 0, calls |-> <<>>, failed |-> {},
                  results |-> <<>>,
                  mwDetached |-> FALSE, mws |-> <<>>,
                  wlDetached |-> FALSE, wl |-> <<>>]
           f1 == nextStage(f0, busMiddleware, events, wildcardListeners)
       IN /\ history' = addToHistory(history, event)
          /\ emits' = Append(emits, f1)
          /\ waiters' = IF f1.pc \in {"listener", "wild"}
                        THEN invoke(waiters, Current(f1), f1.processed)
                        ELSE waiters
    /\ UNCHANGED <<events, wildcardListeners, busMiddleware, nextId>>
    /\ UNCHANGED storeVars

\* emit() number e resumes in the middleware loop: the awaited stage ended,
\* processedEvent is its result when it returned one, and the loop goes on.
EmitMiddlewareResume(e) ==
    /\ e \in DOMAIN emits
    /\ emits[e].pc = "mw"
    /\ LET f == emits[e]
           staged == [f EXCEPT !.processed =
                         stageResult(f.stages[f.mi].kind, f.processed)]
           f2 == nextStage(staged, middlewareOf(f), events, wildcardListeners)
       IN /\ emits' = [emits EXCEPT ![e] = f2]
          /\ waiters' = IF f2.pc \in {"listener", "wild"}
                        THEN invoke(waiters, Current(f2), f2.processed)
                        ELSE waiters
    /\ UNCHANGED <<events, wildcardListeners, history, busMiddleware, nextId>>
    /\ UNCHANGED storeVars

\* EventBus.use(middleware)
BusUse(kind, limit) ==
    /\ Len(busMiddleware) < limit
    /\ busMiddleware' = Append(busMiddleware, kind)
    /\ UNCHANGED <<events, wildcardListeners, history, nextId, emits, waiters>>
    /\ UNCHANGED storeVars

\* The unsubscribe function onAny() returned for the wildcard listener id:
\* findIndex by id, then splice.
\* bus.off(name, selector) by any caller.  The selector is absent (null),
\* a listener id, a callback, or a value that is none of these.
Off(name, sel) ==
    /\ events' = off(events, name, sel)
    /\ UNCHANGED <<wildcardListeners, history, busMiddleware, nextId, emits,
                   waiters>>
    /\ UNCHANGED storeVars

\* The conditions the callers of the model pass to emitIf: a function that
\* returns true for the data, one that returns false, and a value that is
\* not a function.
Conditions == {"holds", "fails", "notFunction"}

\* emitIf that publishes whatever the condition is.
EmitIfAlways(name, data, condition, limit) == EmitStart(name, data, limit)

\* bus.emitIf(name, data, condition): emit(name, data) when condition is a
\* function and condition(data) is truthy, else the promise resolves to
\* null.  A call that did not publish is kept in lastCall with the numbers
\* of publishes and of subscribers of the name at the call.
EmitIf(name, data, condition, limit) ==
    IF condition = "holds"
    THEN EmitStart(name, data, limit)
    ELSE /\ lastCall' = [op |-> "emitIf", raised |-> FALSE,
                         afterDestroy |-> destroyed, notified |-> <<>>,
                         result |-> Null,
                         emitsAtCall |-> Len(emits),
                         countAtCall |-> listenerCount(events, name)]
         /\ UNCHANGED <<state, listeners, middleware, localStorage, destroyed>>
         /\ UNCHANGED timeVars
         /\ UNCHANGED busVars

\* What `this.wildcardListeners = []` means to an emit() whose wildcard loop
\* is under way: the loop keeps the array it started on.
keepWildcards(f) ==
    IF f.pc = "wild" /\ ~f.wlDetached
    THEN [f EXCEPT !.wlDetached = TRUE, !.wl = wildcardListeners]
    ELSE f

\* What `this.middleware = []` means to an emit() whose middleware loop is
\* under way: the loop keeps the array it started on.
keepMiddleware(f) ==
    IF f.pc = "mw" /\ ~f.mwDetached
    THEN [f EXCEPT !.mwDetached = TRUE, !.mws = busMiddleware]
    ELSE f

\* The record of a clear() or destroy() call on the bus: the numbers of ids
\* handed out and of publishes made when it was called.
Cleared(op) ==
    [op |-> op, raised |-> FALSE, afterDestroy |-> destroyed,
     notified |-> <<>>, idsAtCall |-> nextId, emitsAtCall |-> Len(emits)]

\* clear() that leaves the wildcard subscriptions.
BusClearKeepsWildcards ==
    /\ events' = <<>>
    /\ history' = <<>>
    /\ lastCall' = Cleared("clear")
    /\ UNCHANGED <<wildcardListeners, emits, busMiddleware, nextId, waiters>>
    /\ UNCHANGED <<state, listeners, middleware, localStorage, destroyed>>
    /\ UNCHANGED timeVars

\* bus.clear(): this.events.clear(), and new empty arrays for
\* wildcardListeners and history.
BusClear ==
    /\ events' = <<>>
    /\ wildcardListeners' = <<>>
    /\ history' = <<>>
    /\ emits' = [e \in DOMAIN emits |-> keepWildcards(emits[e])]
    /\ lastCall' = Cleared("clear")
    /\ UNCHANGED <<busMiddleware, nextId, waiters>>
    /\ UNCHANGED <<state, listeners, middleware, localStorage, destroyed>>
    /\ UNCHANGED timeVars

\* bus.destroy(): clear(), and a new empty array for middleware.
BusDestroy ==
    /\ events' = <<>>
    /\ wildcardListeners' = <<>>
    /\ history' = <<>>
    /\ busMiddleware' = <<>>
    /\ emits' = [e \in DOMAIN emits |-> keepMiddleware(keepWildcards(emits[e]))]
    /\ lastCall' = Cleared("busDestroy")
    /\ UNCHANGED <<nextId, waiters>>
    /\ UNCHANGED <<state, listeners, middleware, localStorage, destroyed>>
    /\ UNCHANGED timeVars

UnsubscribeAny(id) ==
    /\ id \in IdsOf(wildcardListeners)
    /\ wildcardListeners' =
           Remove(wildcardListeners, findIndexById(wildcardListeners, id))
    /\ UNCHANGED <<events, history, busMiddleware, nextId, emits, waiters>>
    /\ UNCHANGED storeVars

\* emit() number e resumes: the awaited listener ended with `outcome`.  Its
\* result is pushed and a once listener is removed (try block), or {error}
\* is pushed (catch block); then the next listener is called.
EmitResume(e, outcome) ==
    /\ e \in DOMAIN emits
    /\ emits[e].pc \in {"listener", "wild"}
    /\ LET f == emits[e]
           l == Current(f)
           ok == outcome = "value"
           pushed == [f EXCEPT
                         !.results = Append(@, IF ok THEN ReturnOf(l)
                                                     ELSE ErrorMarker),
                         !.failed = IF ok THEN @ ELSE @ \cup {Len(f.calls)}]
           f2 == nextListener(pushed, wildcardsOf(f))
       IN /\ events' = IF f.pc = "listener" /\ ok /\ l.once
                       THEN off(events, f.name, [kind |-> "id", id |-> l.id])
                       ELSE events
          /\ emits' = [emits EXCEPT ![e] = f2]
          /\ waiters' = IF f2.pc # "done"
                        THEN invoke(waiters, Current(f2), f.processed)
                        ELSE waiters
    /\ UNCHANGED <<wildcardListeners, history, busMiddleware, nextId>>
    /\ UNCHANGED storeVars

\* A caller calls getHistory(limit); the call and what it returned are
\* recorded.
GetHistory(limit) ==
    /\ lastCall' = [op |-> "getHistory", raised |-> FALSE,
                    afterDestroy |-> destroyed, notified |-> <<>>,
                    limit |-> limit, result |-> getHistory(history, limit)]
    /\ UNCHANGED <<state, listeners, middleware, localStorage, destroyed>>
    /\ UNCHANGED timeVars
    /\ UNCHANGED busVars

\* A caller calls getEventHistory(name, limit).
GetEventHistory(name, limit) ==
    /\ lastCall' = [op |-> "getEventHistory", raised |-> FALSE,
                    afterDestroy |-> destroyed, notified |-> <<>>,
                    name |-> name, limit |-> limit,
                    result |-> getEventHistory(history, name, limit)]
    /\ UNCHANGED <<state, listeners, middleware, localStorage, destroyed>>
    /\ UNCHANGED timeVars
    /\ UNCHANGED busVars

\* waitFor(eventName, timeout): the timer is set and the listener is
\* registered with once().
WaitFor(name, limit) ==
    /\ Len(waiters) < MaxWaiters
    /\ nextId < limit
    /\ LET cb == WaiterCallbacks[Len(waiters) + 1]
       IN /\ waiters' = Append(waiters,
                 [name |-> name, cb |-> cb, lid |-> nextId + 1,
                  status |-> "pending", timer |-> "armed",
                  value |-> [name |-> "none", data |-> "none", id |-> 0],
                  countAtCall |-> listenerCount(events, name),
                  idsAtCall |-> IF name \in DOMAIN events
                                THEN IdsOf(events[name]) ELSE {},
                  emitsAtCall |-> Len(emits), emitsAtFire |-> 0])
          /\ events' = on(events, name, Listener(nextId + 1, cb, TRUE, 0))
    /\ nextId' = nextId + 1
    /\ UNCHANGED <<wildcardListeners, history, busMiddleware, emits>>
    /\ UNCHANGED storeVars

\* The timer of waitFor number w fires: off(eventName, listener) by the
\* callback function, then reject(), which settles the promise if it is
\* pending.
TimerFire(w) ==
    /\ w \in DOMAIN waiters
    /\ waiters[w].timer = "armed"
    /\ events' = off(events, waiters[w].name, [kind |-> "fn", cb |-> waiters[w].cb])
    /\ waiters' = [waiters EXCEPT
           ![w].timer = "fired",
           ![w].status = IF @ = "pending" THEN "rejected" ELSE @,
           ![w].emitsAtFire = Len(emits)]
    /\ UNCHANGED <<wildcardListeners, history, busMiddleware, nextId, emits>>
    /\ UNCHANGED storeVars


(***************************************************************************)
(* EventBus: the specifications                                            *)
(***************************************************************************)

\* Bounds of the ordering specification.
MaxOrderListeners == 3
MaxOrderEmits == 1

\* Subscribers of three priorities that come and go around emit() calls.
NextOrder ==
    \/ \E name \in Names, priority \in {0, 1, 3} :
           On(name, "f", FALSE, priority, MaxOrderListeners)
    \/ \E name \in Names, id \in 1..MaxOrderListeners : Unsubscribe(name, id)
    \/ \E name \in Names, data \in Payloads :
           EmitStart(name, data, MaxOrderEmits)
    \/ \E e \in 1..MaxOrderEmits : EmitResume(e, "value")

SpecOrder == InitFresh /\ [][NextOrder]_vars

\* Subscribers of two priorities, once or not, wildcard subscribers and
\* overlapping emit() calls whose listeners end in every way.
NextBus ==
    \/ \E name \in Names, once \in BOOLEAN, priority \in {0, 1} :
           On(name, "f", once, priority, MaxListeners)
    \/ OnAny("g", MaxListeners)
    \/ \E name \in Names, data \in Payloads : EmitStart(name, data, MaxEmits)
    \/ \E e \in 1..MaxEmits, outcome \in Outcomes : EmitResume(e, outcome)

SpecBus == InitFresh /\ [][NextBus]_vars

\* Bounds of the specification of overlapping publishes.
MaxOverlapListeners == 2
MaxOverlapEmits == 2

\* Subscribers of two priorities, wildcard subscribers and emit() calls that
\* overlap, their listeners ending in every way.
NextOverlap ==
    \/ \E name \in Names, priority \in {0, 1} :
           On(name, "f", FALSE, priority, MaxOverlapListeners)
    \/ OnAny("g", MaxOverlapListeners)
    \/ \E name \in Names, data \in Payloads :
           EmitStart(name, data, MaxOverlapEmits)
    \/ \E e \in 1..MaxOverlapEmits, outcome \in Outcomes :
           EmitResume(e, outcome)

SpecOverlap == InitFresh /\ [][NextOverlap]_vars

\* Bounds of the wildcard specification.
MaxWildListeners == 3
MaxWildEmits == 1

\* Per-name and wildcard subscribers, wildcard subscribers that unsubscribe,
\* and an emit() call whose listeners end in every way.
NextWild ==
    \/ \E name \in Names : On(name, "f", FALSE, 0, MaxWildListeners)
    \/ OnAny("g", MaxWildListeners)
    \/ \E id \in 1..MaxWildListeners : UnsubscribeAny(id)
    \/ \E name \in Names, data \in Payloads : EmitStart(name, data, MaxWildEmits)
    \/ \E e \in 1..MaxWildEmits, outcome \in Outcomes : EmitResume(e, outcome)

SpecWild == InitFresh /\ [][NextWild]_vars

\* Bounds of the specification of wildcard subscribers that unsubscribe
\* themselves.
MaxSelfOffListeners == 3
MaxSelfOffEmits == 1

\* The wildcard listener that emit() number e is awaiting calls the
\* unsubscribe function onAny() returned to it.
UnsubscribeSelf(e) ==
    /\ e \in DOMAIN emits
    /\ emits[e].pc = "wild"
    /\ UnsubscribeAny(Current(emits[e]).id)

\* Per-name and wildcard subscribers and an emit() call during which the
\* only unsubscriptions are those a wildcard subscriber makes of itself
\* while it is awaited.
NextSelfOff ==
    \/ On("x", "f", FALSE, 0, MaxSelfOffListeners)
    \/ OnAny("g", MaxSelfOffListeners)
    \/ \E e \in 1..MaxSelfOffEmits : UnsubscribeSelf(e)
    \/ \E data \in Payloads : EmitStart("x", data, MaxSelfOffEmits)
    \/ \E e \in 1..MaxSelfOffEmits, outcome \in Outcomes : EmitResume(e, outcome)

SpecSelfOff == InitFresh /\ [][NextSelfOff]_vars

\* Bounds of the middleware specification.
MaxStages == 2
MaxStageListeners == 1
MaxStageEmits == 1

\* Middleware stages that replace the event, reject or throw, in front of
\* per-name and wildcard subscribers that return or throw.
NextMiddleware ==
    \/ \E kind \in {"a", "rejects", "throws"} : BusUse(kind, MaxStages)
    \/ \E name \in Names : On(name, "f", FALSE, 0, MaxStageListeners)
    \/ OnAny("g", MaxStageListeners)
    \/ \E name \in Names, data \in Payloads :
           EmitStart(name, data, MaxStageEmits)
    \/ \E e \in 1..MaxStageEmits : EmitMiddlewareResume(e)
    \/ \E e \in 1..MaxStageEmits, outcome \in {"value", "throw"} :
           EmitResume(e, outcome)

SpecMiddleware == InitFresh /\ [][NextMiddleware]_vars

\* What an emit() awaits settles: while some publish is waiting for a stage
\* or a listener, one of the awaited calls ends.
SpecMiddlewareFair ==
    /\ SpecMiddleware
    /\ WF_vars(\E e \in 1..MaxStageEmits :
                   \/ EmitMiddlewareResume(e)
                   \/ \E outcome \in {"value", "throw"} :
                          EmitResume(e, outcome))

\* Bounds of the error-isolation specification.
MaxIsolationListeners == 3
MaxIsolationEmits == 1

\* The same operations, with fewer emit() calls.
NextIsolation ==
    \/ \E name \in Names, once \in BOOLEAN, priority \in {0, 1} :
           On(name, "f", once, priority, MaxIsolationListeners)
    \/ OnAny("g", MaxIsolationListeners)
    \/ \E name \in Names, data \in Payloads :
           EmitStart(name, data, MaxIsolationEmits)
    \/ \E e \in 1..MaxIsolationEmits, outcome \in Outcomes :
           EmitResume(e, outcome)

SpecIsolation == InitFresh /\ [][NextIsolation]_vars

\* Bounds of the waitFor specification.
MaxWaitListeners == 2
MaxWaitEmits == 1

\* waitFor() calls beside a subscriber of higher priority, emit() calls and
\* the timers.
WaitNames == {"x", "y"}

NextWait ==
    \/ \E name \in WaitNames : WaitFor(name, MaxWaitListeners)
    \/ \E w \in 1..MaxWaiters : TimerFire(w)
    \/ \E name \in WaitNames : On(name, "f", FALSE, 1, MaxWaitListeners)
    \/ \E name \in WaitNames, data \in Payloads :
           EmitStart(name, data, MaxWaitEmits)
    \/ \E e \in 1..MaxWaitEmits, outcome \in Outcomes : EmitResume(e, outcome)

SpecWait == InitFresh /\ [][NextWait]_vars

\* A timer that is set fires unless it is cleared first.
SpecWaitFair ==
    SpecWait /\ \A w \in 1..MaxWaiters : WF_vars(TimerFire(w))

\* Bound of the history specification: one publish more than the history
\* holds, and one more.
MaxHistoryEmits == 102

\* emit() calls on a bus without subscribers.
NextHistory ==
    \E name \in Names, data \in Payloads : EmitStart(name, data, MaxHistoryEmits)

SpecHistory == InitFresh /\ [][NextHistory]_vars


\* Bound of the specification of off().
MaxOffListeners == 3

OffNames == {"x", "y"}
OffCallbacks == {"f", "g"}

\* The selectors the callers of the model pass to off().
Selectors ==
    {[kind |-> "all"], [kind |-> "other"]}
        \cup {[kind |-> "id", id |-> id] : id \in 1..(MaxOffListeners + 1)}
        \cup {[kind |-> "fn", cb |-> cb] : cb \in OffCallbacks \cup {"h"}}

\* Subscriptions under two names and wildcard subscriptions, removed with
\* off() by name, by id and by callback.
NextOff ==
    \/ \E name \in OffNames, cb \in OffCallbacks, priority \in {0, 1} :
           On(name, cb, FALSE, priority, MaxOffListeners)
    \/ OnAny("g", MaxOffListeners)
    \/ \E name \in OffNames, sel \in Selectors : Off(name, sel)

SpecOff == InitFresh /\ [][NextOff]_vars


\* Bounds of the specification of event names.
MaxNameListeners == 2
MaxNameEmits == 1

\* Subscriptions under two names that are made, removed by their
\* unsubscribe function, by off(name), by a publish that called a once
\* listener and by the timeout of waitFor, and clear().
NextNames ==
    \/ \E name \in OffNames, once \in BOOLEAN :
           On(name, "f", once, 0, MaxNameListeners)
    \/ \E name \in OffNames, id \in 1..MaxNameListeners : Unsubscribe(name, id)
    \/ \E name \in OffNames : Off(name, [kind |-> "all"])
    \/ WaitFor("x", MaxNameListeners)
    \/ \E w \in 1..MaxWaiters : TimerFire(w)
    \/ \E name \in OffNames, data \in Payloads :
           EmitStart(name, data, MaxNameEmits)
    \/ \E e \in 1..MaxNameEmits : EmitResume(e, "value")
    \/ BusClear

SpecNames == InitFresh /\ [][NextNames]_vars


\* Bounds of the specification of emitIf().
MaxIfListeners == 1
MaxIfEmits == 1
MaxIfStages == 1

\* Subscribers, wildcard subscribers and middleware, and emitIf() calls
\* whose condition holds, fails or is not a function.
NextIf ==
    \/ \E once \in BOOLEAN : On("x", "f", once, 0, MaxIfListeners)
    \/ OnAny("g", MaxIfListeners)
    \/ \E kind \in {"a", "silent"} : BusUse(kind, MaxIfStages)
    \/ \E data \in Payloads, condition \in Conditions :
           EmitIf("x", data, condition, MaxIfEmits)
    \/ \E e \in 1..MaxIfEmits : EmitMiddlewareResume(e)
    \/ \E e \in 1..MaxIfEmits, outcome \in {"value", "throw"} :
           EmitResume(e, outcome)

SpecIf == InitFresh /\ [][NextIf]_vars


\* Bounds of the specification of clear() and destroy().
MaxClearListeners == 2
MaxClearEmits == 1
MaxClearStages == 1

\* Subscribers, wildcard subscribers and middleware around publishes, and
\* clear() and destroy() calls at any point of them.
NextClear ==
    \/ On("x", "f", FALSE, 0, MaxClearListeners)
    \/ OnAny("g", MaxClearListeners)
    \/ BusUse("a", MaxClearStages)
    \/ \E data \in Payloads : EmitStart("x", data, MaxClearEmits)
    \/ \E e \in 1..MaxClearEmits : EmitMiddlewareResume(e)
    \/ \E e \in 1..MaxClearEmits : EmitResume(e, "value")
    \/ BusClear
    \/ BusDestroy

SpecClear == InitFresh /\ [][NextClear]_vars


\* Bounds of the specification of replaced events.
MaxReplaceStages == 2
MaxReplaceListeners == 2
MaxReplaceEmits == 1

\* Stages that replace the data or the name of the event, or return
\* nothing, before subscribers of two names and wildcard subscribers, and
\* publishes under "x".
NextReplace ==
    \/ \E kind \in {"a", "rename", "silent"} : BusUse(kind, MaxReplaceStages)
    \/ \E name \in OffNames : On(name, "f", FALSE, 0, MaxReplaceListeners)
    \/ OnAny("g", MaxReplaceListeners)
    \/ \E data \in Payloads : EmitStart("x", data, MaxReplaceEmits)
    \/ \E e \in 1..MaxReplaceEmits : EmitMiddlewareResume(e)
    \/ \E e \in 1..MaxReplaceEmits : EmitResume(e, "value")

SpecReplace == InitFresh /\ [][NextReplace]_vars


\* Bounds of the specification of history queries.
MaxQueryEmits == 3
MaxQueryLimit == 3

\* Publishes under two names and queries of the history.
NextQuery ==
    \/ \E name \in OffNames, data \in Payloads :
           EmitStart(name, data, MaxQueryEmits)
    \/ \E limit \in 0..MaxQueryLimit : GetHistory(limit)
    \/ \E name \in OffNames, limit \in 0..MaxQueryLimit :
           GetEventHistory(name, limit)

SpecQuery == InitFresh /\ [][NextQuery]_vars



(***************************************************************************)
(* EventBus: the claims                                                    *)
(***************************************************************************)

\* The calls of frame e that have ended: all but the awaited one while
\* emit() awaits a listener, all of them otherwise.
Completed(f) ==
    IF f.pc \in {"listener", "wild"} THEN Len(f.calls) - 1 ELSE Len(f.calls)

\* The (frame, position) pairs at which listener lid was called.
InvocationsOf(lid) ==
    UNION {{<<e, k>> : k \in {q \in 1..Len(emits[e].calls) :
                                 emits[e].calls[q].id = lid}} :
           e \in DOMAIN emits}
InvocationCount(lid) == Cardinality(InvocationsOf(lid))

\* The ids registered under name.
Registered(name) == IF name \in DOMAIN events THEN IdsOf(events[name]) ELSE {}

\* C1: the callback of a once subscription is invoked for exactly one
\* publish, however the emit() calls overlap: no once listener is called
\* twice.
C1_OnceInvokedAtMostOnce ==
    \A e \in DOMAIN emits : \A k \in 1..emits[e].i :
        emits[e].calls[k].once => InvocationCount(emits[e].calls[k].id) <= 1

\* l1 is called before l2: higher priority first, registration order
\* (ids grow with every registration) among equals.
InOrder(l1, l2) ==
    \/ l1.priority > l2.priority
    \/ l1.priority = l2.priority /\ l1.id < l2.id

IsSorted(list) ==
    \A a, b \in 1..Len(list) : a < b => InOrder(list[a], list[b])

\* C2: within one publish the per-name subscriptions are invoked by
\* descending priority, equal priorities in registration order; the
\* listener lists are kept in that order.
C2_PriorityThenRegistrationOrder ==
    /\ \A name \in DOMAIN events : IsSorted(events[name])
    /\ \A e \in DOMAIN emits :
           \A a, b \in 1..emits[e].i :
               a < b => InOrder(emits[e].calls[a], emits[e].calls[b])

\* C2, witness: priorities 3, 1, 3 registered in that order and invoked
\* as first 3, second 3, 1.
C2_Witness ==
    \E e \in DOMAIN emits :
        /\ emits[e].pc = "done"
        /\ [k \in 1..Len(emits[e].calls) |-> emits[e].calls[k].id] = <<1, 3, 2>>
        /\ [k \in 1..Len(emits[e].calls) |-> emits[e].calls[k].priority] = <<3, 3, 1>>

\* C3: a once subscription whose invocation has ended, in whatever way, is
\* no longer registered: not when the dispatch calls its next listener and
\* not when a later emit() copies the list.
C3_OnceRemovedAfterInvocation ==
    \A e \in DOMAIN emits :
        \A k \in 1..emits[e].i :
            (k <= Completed(emits[e]) /\ emits[e].calls[k].once) =>
                emits[e].calls[k].id \notin Registered(emits[e].name)

\* What holds of every frame: one result per ended call, {error} exactly at
\* the calls that failed and the return value elsewhere; the per-name calls
\* are the copied list in its order, and all of it has been called before
\* the wildcard listeners are.
FrameIsolated(f) ==
    /\ Len(f.results) = Completed(f)
    /\ \A k \in 1..Len(f.results) :
           f.results[k] = IF k \in f.failed THEN ErrorMarker
                          ELSE ReturnOf(f.calls[k])
    /\ Len(f.calls) = f.i + f.wi
    /\ \A k \in 1..f.i : f.calls[k] = f.snap[k]
    /\ f.pc \in {"wild", "done"} => f.i = Len(f.snap)

\* emit() number e returns in this step.
Returns(e) ==
    /\ e \in DOMAIN emits'
    /\ emits'[e].pc = "done"
    /\ e \in DOMAIN emits => emits[e].pc # "done"

\* C4: a per-name subscriber that throws or rejects stops no other
\* subscriber: every listener of the copied list and every wildcard
\* listener is still called, and the result list holds {error} at the
\* failing position and the results of the others in invocation order.
C4_FailureIsolated ==
    /\ [](\A e \in DOMAIN emits : FrameIsolated(emits[e]))
    /\ [][\A e \in 1..MaxIsolationEmits :
             Returns(e) =>
                 LET f == emits'[e]
                 IN /\ f.wi = Len(wildcardListeners')
                    /\ \A k \in 1..f.wi :
                           f.calls[f.i + k] = wildcardListeners'[k]]_vars

\* C4, witness: the first of two per-name listeners failed, the second and
\* a wildcard listener returned, and emit() is done.
C4_Witness ==
    \E e \in DOMAIN emits :
        /\ emits[e].pc = "done"
        /\ emits[e].i = 2 /\ emits[e].wi = 1
        /\ emits[e].failed = {1}
        /\ emits[e].snap[1].priority > emits[e].snap[2].priority
        /\ emits[e].results = <<ErrorMarker, ReturnOf(emits[e].snap[2]),
                                ReturnOf(wildcardListeners[1])>>

Min(a, b) == IF a < b THEN a ELSE b

\* C5: the history never holds more than maxHistorySize events, and it
\* holds the most recent ones in publish order.
C5_HistoryBounded ==
    LET n == Len(emits)
        m == Min(n, maxHistorySize)
    IN /\ Len(history) <= maxHistorySize
       /\ Len(history) = m
       /\ \A k \in 1..m : history[k] = emits[n - m + k].event

\* C5, witness: after maxHistorySize + 1 publishes the first event is gone
\* and the last one is the newest entry.
C5_Witness ==
    /\ Len(emits) = maxHistorySize + 1
    /\ Len(history) = maxHistorySize
    /\ history[1].id = 2
    /\ history[Len(history)].id = maxHistorySize + 1


\* The emit(name) calls made between the waitFor call w and its timeout.
PublishedBeforeTimeout(w) ==
    {e \in DOMAIN emits :
        /\ emits[e].name = waiters[w].name
        /\ waiters[w].emitsAtCall < e
        /\ e <= waiters[w].emitsAtFire}

\* The promise of waitFor number w is rejected in this step.
Rejects(w) ==
    /\ w \in DOMAIN waiters
    /\ waiters[w].status = "pending"
    /\ waiters'[w].status = "rejected"

\* A list without the listener whose id is lid.
Without(list, lid) ==
    LET keep == {i \in 1..Len(list) : list[i].id # lid}
        Nth(n) == CHOOSE i \in keep : Cardinality({j \in keep : j < i}) = n - 1
    IN [n \in 1..Cardinality(keep) |-> list[Nth(n)]]

\* C6, in a state: a waitFor that timed out has left no subscription
\* behind; the count is what it was before the call when nothing was
\* registered since and the subscriptions of then are still there; and
\* when no emit(name) came before the timeout its callback has not been
\* called, by no later emit(name) either.
TimedOutClean(w) ==
    waiters[w].status = "rejected" =>
        /\ waiters[w].timer = "fired"
        /\ waiters[w].lid \notin Registered(waiters[w].name)
        /\ (nextId = waiters[w].lid /\
            waiters[w].idsAtCall \subseteq Registered(waiters[w].name)) =>
               listenerCount(events, waiters[w].name) = waiters[w].countAtCall
        /\ PublishedBeforeTimeout(w) = {} => InvocationCount(waiters[w].lid) = 0

\* C6: waitFor(name, timeout) without a publish(name) before the timeout
\* rejects and removes the transient subscription, and only it;
\* subscriberCount(name) is back at its value, and a later publish(name)
\* neither calls the transient callback nor changes the outcome.
C6_TimeoutRemovesSubscription ==
    /\ [](\A w \in DOMAIN waiters : TimedOutClean(w))
    /\ [][\A w \in 1..MaxWaiters :
             /\ Rejects(w) =>
                    LET name == waiters[w].name
                    IN /\ waiters[w].lid \in Registered(name)
                       /\ listenerCount(events', name) =
                              listenerCount(events, name) - 1
                       /\ \A n \in DOMAIN events' :
                              events'[n] = IF n = name
                                            THEN Without(events[n], waiters[w].lid)
                                            ELSE events[n]
             /\ (w \in DOMAIN waiters /\ waiters[w].status = "rejected") =>
                    waiters'[w].status = "rejected"]_vars

\* C6, witness: the timeout fired before any emit(), emit(name) was called
\* afterwards and is done, and the promise is still rejected, its callback
\* never called.
C6_Witness ==
    \E w \in DOMAIN waiters :
        /\ waiters[w].status = "rejected"
        /\ waiters[w].emitsAtFire = 0
        /\ waiters[w].countAtCall = 1
        /\ listenerCount(events, waiters[w].name) = 1
        /\ \E e \in DOMAIN emits :
               emits[e].name = waiters[w].name /\ emits[e].pc = "done"
        /\ InvocationCount(waiters[w].lid) = 0

\* The promise of waitFor number w is resolved in this step.
Resolves(w) ==
    /\ w \in DOMAIN waiters
    /\ waiters[w].status = "pending"
    /\ waiters'[w].status = "resolved"

\* C7, in a state: a pending promise has its timer set; a resolved one had
\* its timer cleared and holds the event of an emit(name) made after the
\* waitFor call; a rejected one had its timer fire.
SettledOneWay(w) ==
    /\ waiters[w].status = "pending" => waiters[w].timer = "armed"
    /\ waiters[w].status = "rejected" => waiters[w].timer = "fired"
    /\ waiters[w].status = "resolved" =>
           /\ waiters[w].timer = "cleared"
           /\ \E e \in DOMAIN emits :
                  /\ e > waiters[w].emitsAtCall
                  /\ emits[e].name = waiters[w].name
                  /\ waiters[w].value = emits[e].event
                  /\ waiters[w].value.data \in Payloads
                  /\ waiters[w].lid \in IdsOf(emits[e].calls)

InProgress(f) == Len(f.calls) - Len(f.results)

\* emit() number e calls a listener in this step.
CallsNext(e) ==
    /\ e \in DOMAIN emits'
    /\ Len(emits'[e].calls) > (IF e \in DOMAIN emits THEN Len(emits[e].calls) ELSE 0)

\* C16: within one publish at most one subscriber invocation is in progress
\* at any time, and a subscriber is called only when every subscriber the
\* publish called before has ended.
C16_OneInvocationAtATime ==
    /\ [](\A e \in DOMAIN emits :
             /\ InProgress(emits[e]) \in {0, 1}
             /\ InProgress(emits[e]) = 1 <=> emits[e].pc \in {"listener", "wild"})
    /\ [][\A e \in 1..MaxOverlapEmits :
             CallsNext(e) =>
                 /\ Len(emits'[e].calls) = Len(emits'[e].results) + 1
                 /\ e \in DOMAIN emits =>
                        Len(emits'[e].results) = Len(emits[e].calls)]_vars

\* C16, witness: the second per-name subscriber of a publish is in progress
\* and the first one has ended.
C16_Witness ==
    \E e \in DOMAIN emits :
        /\ emits[e].pc = "listener"
        /\ emits[e].i = 2
        /\ Len(emits[e].results) = 1

\* emit() number e is called in this step.
EmitStarts(e) == Len(emits) = e - 1 /\ Len(emits') = e

\* C17: there is no dispatch lock.  An emit() called while another one is
\* suspended copies the listener list and calls its first listener at once,
\* the frames of the other emit() calls stay as they are, a frame that is
\* resumed moves no other frame, and every frame calls the listeners of its
\* copy in priority order.
C17_NoDispatchLock ==
    /\ [](\A e \in DOMAIN emits :
             /\ IsSorted(emits[e].snap)
             /\ \A k \in 1..emits[e].i : emits[e].calls[k] = emits[e].snap[k])
    /\ [][\A e \in 1..MaxOverlapEmits :
             /\ EmitStarts(e) =>
                    LET f == emits'[e]
                        copy == IF f.name \in DOMAIN events
                                THEN events[f.name] ELSE <<>>
                    IN /\ f.snap = copy
                       /\ copy # <<>> => f.pc = "listener" /\ f.calls = <<copy[1]>>
                       /\ (copy = <<>> /\ wildcardListeners # <<>>) =>
                              f.pc = "wild" /\ f.calls = <<wildcardListeners[1]>>
                       /\ \A d \in DOMAIN emits : emits'[d] = emits[d]
             /\ (e \in DOMAIN emits /\ emits'[e] # emits[e]) =>
                    \A d \in DOMAIN emits : d # e => emits'[d] = emits[d]]_vars

\* C17, witness: the second emit() has called two listeners and is done
\* while the first emit(), called before it, still awaits its first one.
C17_Witness ==
    /\ Len(emits) = 2
    /\ emits[1].pc = "listener" /\ emits[1].i = 1
    /\ emits[2].pc = "done" /\ emits[2].i = 2
    /\ emits[2].calls[1].priority > emits[2].calls[2].priority

\* C20: the history holds the events in the order of the emit() calls,
\* whatever the order in which the calls return; getHistory() shows them in
\* that order, and the event of an emit() call is its newest entry as soon
\* as the call has been made.
C20_HistoryInPublishOrder ==
    /\ [](/\ getHistory(history, defaultHistoryLimit) =
                 [k \in 1..Len(emits) |-> emits[k].event]
          /\ \A a, b \in 1..Len(history) :
                 a < b => history[a].id < history[b].id)
    /\ [][\A e \in 1..MaxOverlapEmits :
             EmitStarts(e) =>
                 /\ history' = Append(history, emits'[e].event)
                 /\ getHistory(history', defaultHistoryLimit)[e] =
                        emits'[e].event]_vars

\* C20, witness: the second emit() is done, the first one is not, and the
\* event of the first precedes the event of the second in the history.
C20_Witness ==
    /\ Len(emits) = 2
    /\ emits[1].pc # "done"
    /\ emits[2].pc = "done"
    /\ emits[2].calls # <<>>
    /\ getHistory(history, defaultHistoryLimit) = <<emits[1].event, emits[2].event>>


\* The wildcard listeners frame f has called.
WildCallsOf(f) == {f.calls[k] : k \in (f.i + 1)..Len(f.calls)}

\* C18: the wildcard subscribers of a publish are called after every
\* per-name subscriber of its copied list has ended, one at a time and in
\* registration order; one that fails is recorded as {error}; and when the
\* publish returns, every wildcard subscriber that is registered has been
\* called.
C18_WildcardsAfterPerName ==
    /\ [](\A e \in DOMAIN emits :
             LET f == emits[e]
             IN /\ Len(f.calls) > f.i =>
                       f.i = Len(f.snap) /\ Len(f.results) >= f.i
                /\ InProgress(f) \in {0, 1}
                /\ \A a, b \in (f.i + 1)..Len(f.calls) :
                       a < b => f.calls[a].id < f.calls[b].id
                /\ \A k \in (f.i + 1)..Len(f.results) :
                       f.results[k] = IF k \in f.failed THEN ErrorMarker
                                      ELSE ReturnOf(f.calls[k]))
    /\ [][\A e \in 1..MaxWildEmits :
             Returns(e) =>
                 \A k \in 1..Len(wildcardListeners') :
                     wildcardListeners'[k] \in WildCallsOf(emits'[e])]_vars


\* What holds of the middleware stages of every frame: they are the
\* registered stages in registration order, each called once; the first one
\* receives the event emit() built; and the stage after one that failed
\* receives what the failing one received, as do the listeners when the
\* failing one was the last.
StagesInOrder(f) ==
    /\ Len(f.stages) = f.mi
    /\ f.mi <= Len(busMiddleware)
    /\ \A j \in 1..Len(f.stages) : f.stages[j].kind = busMiddleware[j]
    /\ f.stages # <<>> => f.stages[1].input = f.event
    /\ \A j \in 1..Len(f.stages) :
           f.stages[j].kind \in {"rejects", "throws", "silent"} =>
               IF j < Len(f.stages)
               THEN f.stages[j + 1].input = f.stages[j].input
               ELSE f.pc # "mw" => f.processed = f.stages[j].input

\* emit() number e leaves the middleware loop in this step.
LeavesMiddleware(e) ==
    /\ e \in DOMAIN emits'
    /\ emits'[e].pc # "mw"
    /\ e \in DOMAIN emits => emits[e].pc = "mw"

\* C19: the middleware stages of a publish run one after the other in
\* registration order; a stage that fails is skipped and the next stage
\* receives the event as it was; the event is then delivered to the per-name
\* subscribers of the list and to the wildcard subscribers, whichever of
\* them fail; and the publish returns its result list: it does not stay
\* pending and there is no state in which it has rejected.
C19_MiddlewareFailuresAreSkipped ==
    /\ [](\A e \in DOMAIN emits :
             /\ StagesInOrder(emits[e])
             /\ FrameIsolated(emits[e])
             /\ emits[e].pc \in {"mw", "listener", "wild", "done"})
    /\ [][\A e \in 1..MaxStageEmits :
             /\ LeavesMiddleware(e) =>
                    LET f == emits'[e]
                        list == IF f.name \in DOMAIN events
                                THEN events[f.name] ELSE <<>>
                    IN /\ Len(f.stages) = Len(busMiddleware)
                       /\ f.snap = list
                       /\ list # <<>> => f.calls = <<list[1]>>
             /\ Returns(e) =>
                    LET f == emits'[e]
                    IN /\ f.i = Len(f.snap)
                       /\ f.wi = Len(wildcardListeners')
                       /\ Len(f.results) = Len(f.snap) + Len(wildcardListeners')]_vars
    /\ []<>(\A e \in DOMAIN emits : emits[e].pc = "done")

\* C19, witness: a publish is done after a stage that threw and a stage that
\* rejected, and after its subscriber failed; the subscriber got the event as
\* emit() built it and the result list holds its error.
C19_Witness ==
    \E e \in DOMAIN emits :
        /\ emits[e].pc = "done"
        /\ Len(emits[e].stages) = 2
        /\ emits[e].stages[1].kind = "throws"
        /\ emits[e].stages[2].kind = "rejects"
        /\ emits[e].stages[2].input = emits[e].event
        /\ emits[e].processed = emits[e].event
        /\ Len(emits[e].calls) = 1
        /\ emits[e].failed = {1}
        /\ emits[e].results = <<ErrorMarker>>

\* The subscriptions kept under a name.
Subscriptions(ev, name) == IF name \in DOMAIN ev THEN ev[name] ELSE <<>>

\* The indexes of the subscriptions a selector matches.
Matches(list, sel) ==
    {i \in 1..Len(list) :
        \/ sel.kind = "id" /\ list[i].id = sel.id
        \/ sel.kind = "fn" /\ list[i].cb = sel.cb}

\* C25: off(name, selector) removes one subscription of name when the
\* selector is an id or a callback that matches, the others staying in the
\* order they had; it removes every subscription of name when no selector
\* is given; it changes nothing when name has no subscriptions or nothing
\* matches.  Other names and the wildcard subscriptions stay as they were.
C25_OffRemovesWhatIsSelected ==
    [][\A name \in OffNames, sel \in Selectors :
          Off(name, sel) =>
              LET list == Subscriptions(events, name)
                  after == Subscriptions(events', name)
              IN /\ \A n \in OffNames \ {name} :
                        /\ (n \in DOMAIN events') = (n \in DOMAIN events)
                        /\ Subscriptions(events', n) = Subscriptions(events, n)
                 /\ wildcardListeners' = wildcardListeners
                 /\ sel.kind = "all" => after = <<>>
                 /\ (sel.kind \in {"id", "fn"} /\ Matches(list, sel) # {}) =>
                        \E i \in Matches(list, sel) : after = Remove(list, i)
                 /\ (sel.kind # "all" /\ Matches(list, sel) = {}) =>
                        events' = events]_vars

\* Three subscriptions were made, two of them under "x" with the callback
\* "f"; one of the two is gone and the other is still there, as is the
\* subscription under "y".
C25_Witness ==
    /\ nextId = 3
    /\ "x" \in DOMAIN events /\ "y" \in DOMAIN events
    /\ Len(events["x"]) = 1 /\ events["x"][1].cb = "f" /\ events["x"][1].id = 2
    /\ Len(events["y"]) = 1 /\ events["y"][1].cb = "f" /\ events["y"][1].id = 3
    /\ wildcardListeners = <<>>

\* listenerCount(n) added up over the names of a set.
RECURSIVE SumOfCounts(_, _)
SumOfCounts(ev, names) ==
    IF names = {} THEN 0
    ELSE LET n == CHOOSE n \in names : TRUE
         IN listenerCount(ev, n) + SumOfCounts(ev, names \ {n})

\* C26: no name is kept with an empty list.  For every name, eventNames()
\* holds it exactly when listenerCount(name) > 0, which is exactly when
\* hasEvent(name); getStats().totalListeners is the sum of listenerCount
\* over eventNames().
C26_NoNameWithoutSubscribers ==
    /\ \A n \in DOMAIN events : events[n] # <<>>
    /\ \A n \in OffNames :
           /\ (n \in eventNames(events)) = (listenerCount(events, n) > 0)
           /\ (listenerCount(events, n) > 0) = hasEvent(events, n)
    /\ totalListeners(events) = SumOfCounts(events, eventNames(events))

\* The waitFor("x") subscription was removed by its timeout and the once
\* subscription of "y" by the publish that called it: neither is a name of
\* the bus any more.
C26_Witness ==
    /\ \E w \in DOMAIN waiters :
           waiters[w].name = "x" /\ waiters[w].status = "rejected"
    /\ "x" \notin eventNames(events)
    /\ \E e \in DOMAIN emits :
           /\ emits[e].pc = "done" /\ emits[e].name = "y"
           /\ \E k \in 1..Len(emits[e].calls) :
                  /\ emits[e].calls[k].once
                  /\ emits[e].calls[k].id \notin IdsOf(Subscriptions(events, "y"))
    /\ ~hasEvent(events, "y")
    /\ eventNames(events) = {}
    /\ totalListeners(events) = 0

\* C27: emitIf(name, data, condition) is emit(name, data) when the condition
\* holds for the data.  When the condition fails or is not a function the
\* call resolves to null and nothing of the bus changes: history, the
\* subscriber lists and the wildcard list are as before and no subscriber
\* and no middleware is called.
C27_EmitIfPublishesOnlyWhenConditionHolds ==
    [][\A data \in Payloads, condition \in Conditions :
          EmitIf("x", data, condition, MaxIfEmits) =>
              IF condition = "holds"
              THEN /\ EmitStart("x", data, MaxIfEmits)
                   /\ Len(emits') = Len(emits) + 1
                   /\ history' = addToHistory(history, emits'[Len(emits')].event)
              ELSE /\ lastCall'.op = "emitIf" /\ lastCall'.result = Null
                   /\ history' = history
                   /\ events' = events
                   /\ wildcardListeners' = wildcardListeners
                   /\ emits' = emits
                   /\ waiters' = waiters]_vars

\* An emitIf() call whose condition failed was made after one publish, with
\* a subscriber of the name and a middleware on the bus: there is still the
\* one publish, the one history entry and the subscriber.
C27_Witness ==
    /\ lastCall.op = "emitIf"
    /\ lastCall.emitsAtCall = 1 /\ lastCall.countAtCall = 1
    /\ Len(emits) = 1 /\ Len(history) = 1
    /\ emits[1].pc = "done" /\ Len(emits[1].calls) = 1
    /\ Len(emits[1].stages) = 1
    /\ listenerCount(events, "x") = 1
    /\ Len(busMiddleware) = 1

\* The step is a clear() or a destroy() of the bus.
IsBusClear ==
    lastCall' # lastCall /\ lastCall'.op \in {"clear", "busDestroy"}

\* The subscribers called by the publishes made since the last clear() or
\* destroy() of the bus.
CalledSinceCleared ==
    UNION {{emits[e].calls[k].id : k \in 1..Len(emits[e].calls)} :
              e \in {q \in DOMAIN emits : q > lastCall.emitsAtCall}}

\* C28: clear() empties the subscriptions of every name, the wildcard
\* subscriptions and the history and leaves the middleware list as it is;
\* destroy() does the same and empties the middleware list.  A publish made
\* after either calls no subscriber that was registered before it.
C28_ClearDropsEverySubscriber ==
    /\ [][IsBusClear =>
              /\ events' = <<>>
              /\ eventNames(events') = {}
              /\ wildcardListeners' = <<>>
              /\ history' = <<>>
              /\ busMiddleware' = IF lastCall'.op = "clear" THEN busMiddleware
                                  ELSE <<>>]_vars
    /\ [](lastCall.op \in {"clear", "busDestroy"} =>
              \A id \in CalledSinceCleared : id > lastCall.idsAtCall)

\* A publish called a subscriber of its name and a wildcard subscriber, with
\* a middleware on the bus; then clear() was called: nothing is subscribed,
\* the history is empty and the middleware is still there.
C28_Witness ==
    /\ lastCall.op = "clear"
    /\ lastCall.idsAtCall = 2 /\ lastCall.emitsAtCall = 1
    /\ emits[1].pc = "done" /\ Len(emits[1].calls) = 2
    /\ events = <<>> /\ wildcardListeners = <<>> /\ history = <<>>
    /\ Len(busMiddleware) = 1

\* The stages of the frame f that returned a replacement.
Replacing(f) ==
    {j \in 1..Len(f.stages) : f.stages[j].kind \in {"a", "b", "rename"}}

\* The event the stages of f made of the event emit() built: the name is
\* "y" when a stage renamed it, the data is the one the last stage that
\* replaced the data gave it.
Replacement(f) ==
    LET datas == {j \in Replacing(f) : f.stages[j].kind \in {"a", "b"}}
    IN [name |-> IF \E j \in Replacing(f) : f.stages[j].kind = "rename"
                 THEN "y" ELSE f.event.name,
        data |-> IF datas = {} THEN f.event.data
                 ELSE f.stages[CHOOSE j \in datas :
                                   \A q \in datas : q <= j].kind,
        id |-> f.event.id]

\* C32: when a stage returns a replacement event, the subscribers of the
\* name and the wildcard subscribers are called with what the last stage
\* that returned a value returned; the list of subscribers is the one of
\* the name emit() was called with; the history entry is the event as
\* emit() built it.
C32_SubscribersGetTheReplacement ==
    /\ [](\A e \in DOMAIN emits :
             LET f == emits[e]
             IN /\ f.event = [name |-> f.name, data |-> f.event.data, id |-> e]
                /\ \E h \in 1..Len(history) : history[h] = f.event
                /\ f.pc # "mw" =>
                       /\ f.processed = Replacement(f)
                       /\ IdsOf(f.snap) \subseteq
                              IdsOf(Subscriptions(events, f.name))
                       /\ \A k \in 1..Len(f.calls) :
                              \/ f.calls[k].id \in IdsOf(f.snap)
                              \/ f.calls[k].id \in IdsOf(wildcardListeners))
    /\ [][\A e \in 1..MaxReplaceEmits :
             LeavesMiddleware(e) =>
                 /\ emits'[e].snap = Subscriptions(events, emits'[e].name)
                 /\ Len(emits'[e].stages) = Len(busMiddleware)]_vars

\* A publish under "x" went through a stage that renamed the event to "y"
\* and a stage that replaced its data: the subscriber of "x" and the
\* wildcard subscriber were called with the replacement, and the history
\* holds the event as it was built.
C32_Witness ==
    /\ Len(emits) = 1 /\ emits[1].pc = "done"
    /\ busMiddleware = <<"rename", "a">>
    /\ emits[1].processed = [name |-> "y", data |-> "a", id |-> 1]
    /\ history = <<[name |-> "x", data |-> "p", id |-> 1]>>
    /\ listenerCount(events, "x") = 1
    /\ Len(wildcardListeners) = 1
    /\ Len(emits[1].calls) = 2
    /\ emits[1].calls[1] = events["x"][1]
    /\ emits[1].calls[2] = wildcardListeners[1]

\* The wildcard listeners registered after the listener l, which are the
\* ones that follow it in this.wildcardListeners.
Following(l) ==
    {wildcardListeners[k] : k \in {j \in 1..Len(wildcardListeners) :
                                       wildcardListeners[j].id > l.id}}

\* C35: when a publish goes on from a wildcard subscriber that has ended,
\* it calls the registered wildcard subscriber that follows it, also when
\* the one that ended has unsubscribed itself meanwhile: no registered
\* wildcard subscriber is skipped, and none is called twice.
C35_SelfUnsubscribeSkipsNoWildcard ==
    [][\A e \in 1..MaxSelfOffEmits :
          (e \in DOMAIN emits /\ emits[e].pc = "wild" /\ emits'[e] # emits[e]) =>
              LET ended == Current(emits[e])
                  called == WildCallsOf(emits'[e])
              IN /\ \A l \in Following(ended) :
                        (\A m \in Following(ended) : l.id <= m.id) =>
                            /\ emits'[e].pc = "wild"
                            /\ Current(emits'[e]) = l
                 /\ Cardinality(called) = Len(emits'[e].calls) - emits'[e].i]_vars

\* emit() number e calls a listener of its copied list in this step.
CallsPerName(e) ==
    /\ e \in DOMAIN emits'
    /\ emits'[e].pc = "listener"
    /\ e \in DOMAIN emits => Len(emits'[e].calls) > Len(emits[e].calls)

\* C36: a publish calls no per-name subscriber whose unsubscribe function
\* has returned: every per-name subscriber a publish calls is registered
\* under the name at the moment of the call, also when the publish was in
\* flight when the subscriber was removed.
C36_UnsubscribedIsNotCalled ==
    [][\A e \in 1..MaxOrderEmits :
          CallsPerName(e) =>
              Current(emits'[e]).id \in
                  IdsOf(Subscriptions(events, emits'[e].name))]_vars

\* The last n entries of the list h.
MostRecent(h, n) == SubSeq(h, Len(h) - n + 1, Len(h))

\* The entries of h published under name, in the order of h.
Under(h, name) ==
    LET idx == {k \in 1..Len(h) : h[k].name = name}
        nth[n \in 0..Len(h)] ==
            IF n = 0 THEN 0
            ELSE IF \E k \in idx : k > nth[n - 1]
            THEN CHOOSE k \in idx : k > nth[n - 1] /\
                                     \A j \in idx : j > nth[n - 1] => k <= j
            ELSE 0
    IN [n \in 1..Cardinality(idx) |-> h[nth[n]]]

\* C40: getHistory(limit) returns the min(limit, number of entries) most
\* recent entries of the history in publish order for every limit >= 0,
\* the empty list for limit = 0; getEventHistory(name, limit) returns the
\* same of the entries published under name; neither changes the history.
C40_HistoryQueriesReturnTheMostRecent ==
    [][/\ \A limit \in 0..MaxQueryLimit :
              (GetHistory(limit) /\ lastCall'.op = "getHistory") =>
                  /\ lastCall'.result =
                         MostRecent(history, Min(limit, Len(history)))
                  /\ history' = history
       /\ \A name \in OffNames, limit \in 0..MaxQueryLimit :
              (GetEventHistory(name, limit) /\ lastCall'.op = "getEventHistory") =>
                  /\ lastCall'.result =
                         MostRecent(Under(history, name),
                                    Min(limit, Len(Under(history, name))))
                  /\ history' = history]_vars

=============================================================================
